---- MODULE Spec2Model ----
(***************************************************************************)
(* Publish-and-reconcile pipeline of art_indexes (backend/*.py).           *)
(*                                                                         *)
(* Three specifications share this module:                                 *)
(*   Spec    - processes running MasterApi operations around SyncLock      *)
(*             (lockutil.py, api.py sync / save_master / prune_apply /     *)
(*             delete_card_by_id), file contents abstracted to "touched".  *)
(*   SpecAW  - fsutil.atomic_write_text / atomic_write_bytes step by step, *)
(*             with the failures the code catches.                         *)
(*   SpecPub - the content pipeline of one process: master document,       *)
(*             aggregate page, per-folder pages, sanitizer, path rewriter. *)
(***************************************************************************)
EXTENDS Integers, Sequences, FiniteSets, TLC

VARIABLES
    \* ---- Spec: lock and processes ----
    now,          \* wall clock (time.time()), in ticks
    lockFile,     \* backend/.sync.lock: [exists, mtime, creator]
    pc,           \* per process: position inside the running operation
    op,           \* per process: the MasterApi operation it runs
    acquired,     \* per process: SyncLock._acquired
    touched,      \* per process: shared files read or written by the running operation
    entry,        \* per process: how the last SyncLock.__enter__ ended
    enteredAt,    \* per process: when __enter__ was called, if no lock file
                  \* existed at that moment and no other process was past
                  \* its exclusive create (NoEntry otherwise)
    result        \* per process: the dict the last operation returned

lockVars == <<now, lockFile, pc, op, acquired, touched, entry, enteredAt, result>>

\* ---- state of the atomic writer (fsutil.py) ----
VARIABLES
    dest,         \* the destination file: exists, data (bytes), mode
    tmp,          \* per writer: the temporary file mkstemp gave it
    awpc,         \* per writer: position inside atomic_write_text/bytes
    awData,       \* per writer: the content it was asked to write
    awFailedAt,   \* per writer: the step whose exception the call raised
    awUnlinkFailed, \* per writer: the cleanup os.unlink raised OSError
    awReplaced,   \* per writer: this call's os.replace has happened
    strayTmp      \* a temporary file of an earlier, finished call is still there

awVars == <<dest, tmp, awpc, awData, awFailedAt, awUnlinkFailed, awReplaced,
           strayTmp>>

\* ---- state of the content pipeline (api.py, pruner.py, builder.py) ----
VARIABLES
    dirs,         \* names of the folders under resource/
    idFile,       \* per folder name: content of its .suksukidx.id ("" = none)
    child,        \* per folder name: resource/<name>/index.html
    master,       \* backend/master_content.html
    agg,          \* resource/master_index.html, the aggregate page
    registry,     \* backend/.suksukidx.registry.json: the list "items"
    regWritable,  \* whether that file can be written (a failed save is
                  \* swallowed, api.py 240-245)
    clock,        \* what the wall clock and a folder's mtime read
    pubLast       \* what the last operation was and which files it wrote

pubVars == <<dirs, idFile, child, master, agg, registry, regWritable, clock, pubLast>>

\* ---- one call of a pure function (sanitizer.py, htmlops.py) ----
VARIABLES
    fnIn,         \* the markup given to the call: the children of div.inner
    fnFolder,     \* the folder name given to adjust_paths_for_folder
    fnOut,        \* per pass: the markup returned (<<>> before the call)
    fnMetrics,    \* per pass: the metrics dict sanitize_for_publish returned
    fnPc          \* number of passes done

fnVars == <<fnIn, fnFolder, fnOut, fnMetrics, fnPc>>

vars == <<lockVars, awVars, pubVars, fnVars>>

\* ------------------------------------------------------------------------
\* Bounds and parameters
\* ------------------------------------------------------------------------
MaxTime == 4

\* SyncLock.stale_after, in ticks of the model's clock
StaleAfter == 1

Procs == {"p1", "p2"}

NoProc == "none"

NoEntry == 0 - 1
\* positions of a process that has not (yet) created a lock file
BeforeCreate == {"idle", "exists", "stale", "break", "open", "run"}

\* The shared mutable resources of spec section 5.
FileKinds == {"master", "index", "child", "idfile", "thumbs", "registry"}

\* Operations of MasterApi that write master / aggregate / per-folder pages
\* without entering SyncLock.
UnlockedOps == {"save_master", "prune_apply", "delete_card_by_id"}

NoLock == [exists |-> FALSE, mtime |-> 0, creator |-> NoProc]

\* ------------------------------------------------------------------------
\* Result shapes of MasterApi.sync
\* ------------------------------------------------------------------------
NoResult == [ok |-> FALSE, locked |-> FALSE, errors |-> <<"pending">>]

\* api.py 1040-1064: except SyncLockError
LockedResult == [ok |-> FALSE, locked |-> TRUE, errors |-> <<"locked">>]

\* api.py 1066-1088: except Exception
ExceptionResult == [ok |-> FALSE, locked |-> FALSE, errors |-> <<"exception">>]

\* api.py 1005, 1032-1038: ok = scan_ok and push_ok, errors collected in the run
NormalResult(scan_ok, push_ok) ==
    [ok |-> scan_ok /\ push_ok, locked |-> FALSE,
     errors |-> (IF scan_ok THEN <<>> ELSE <<"scan">>) \o
                (IF push_ok THEN <<>> ELSE <<"push">>)]

\* ------------------------------------------------------------------------
\* SyncLock
\* ------------------------------------------------------------------------
\* lockutil.py 26-32: age = time.time() - st_mtime; age > stale_after
IsStale(lf, t) == lf.exists /\ (t - lf.mtime > StaleAfter)

\* ---- atomic writer: values ----
MaxLen == 2

\* the contents a caller may ask to write, one "byte" per element
AwInputs == {[i \in 1..MaxLen |-> 1], [i \in 1..MaxLen |-> 2]}

\* what the destination held before any call
OldData == [i \in 1..MaxLen |-> 0]

NoFile == [exists |-> FALSE, data |-> <<>>, mode |-> 0]

\* tempfile.mkstemp creates an empty file with mode 0600
FreshTmp == [exists |-> TRUE, data |-> <<>>, mode |-> 600]

\* ---- content pipeline: values ----
\* folder names, which are also the card titles
Folders == {"B", "a"}

\* other directory names the curator may have under resource/: a shared
\* asset directory, a dot-prefixed one and the thumbnail directory
OtherDirs == {"css", ".x", "thumbs"}

DirNames == Folders \cup OtherDirs

NoId == ""

NoPage == [exists |-> FALSE, title |-> "", body |-> <<>>, back |-> FALSE]

NoMaster == [exists |-> FALSE, pre |-> FALSE, cards |-> <<>>]

NoAgg == [exists |-> FALSE, cards |-> <<>>]

NoRename == [from |-> "", to |-> "", id |-> NoId]

\* the call of ensure_card_ids on its own: the mapping it returned, the
\* folders whose identifier could not be written, the files before the call
NoIds == [folder_to_id |-> <<>>, failing |-> {}, before |-> <<>>]

NoOp == [op |-> "none", caseB |-> FALSE, wroteMaster |-> FALSE,
         wroteAgg |-> FALSE, wroteChild |-> FALSE, byPush |-> FALSE,
         ok |-> FALSE, ren |-> NoRename, ids |-> NoIds, cold |-> FALSE,
         foldersAdded |-> 0, prunedFromMaster |-> 0,
         hard_deleted |-> 0, hard_skipped_locked |-> 0,
         scanOk |-> TRUE, pushOk |-> TRUE, errors |-> 0, failedWrite |-> "none"]

PubQuiet ==
    /\ dirs = {}
    /\ idFile = [f \in DirNames |-> NoId]
    /\ child = [f \in DirNames |-> NoPage]
    /\ master = NoMaster
    /\ agg = NoAgg
    /\ registry = <<>>
    /\ regWritable = FALSE
    /\ clock = 1
    /\ pubLast = NoOp

NoMetrics == [removed_nodes |-> 0, removed_attrs |-> 0, unwrapped_tags |-> 0,
              blocked_urls |-> 0]

FnQuiet ==
    /\ fnIn = <<>>
    /\ fnFolder = ""
    /\ fnOut = <<<<>>, <<>>>>
    /\ fnMetrics = <<NoMetrics, NoMetrics>>
    /\ fnPc = 0

AwQuiet ==
    /\ dest = NoFile
    /\ tmp = [w \in Procs |-> NoFile]
    /\ awpc = [w \in Procs |-> "idle"]
    /\ awData = [w \in Procs |-> <<>>]
    /\ awFailedAt = [w \in Procs |-> "none"]
    /\ awUnlinkFailed = [w \in Procs |-> FALSE]
    /\ awReplaced = [w \in Procs |-> FALSE]
    /\ strayTmp = FALSE

LockQuiet ==
    /\ now = 0
    /\ lockFile = NoLock
    /\ pc = [p \in Procs |-> "idle"]
    /\ op = [p \in Procs |-> "none"]
    /\ acquired = [p \in Procs |-> FALSE]
    /\ touched = [p \in Procs |-> {}]
    /\ entry = [p \in Procs |-> "none"]
    /\ enteredAt = [p \in Procs |-> NoEntry]
    /\ result = [p \in Procs |-> NoResult]

Init ==
    /\ now = 0
    \* a lock file left behind by a crashed earlier run may be present
    /\ lockFile \in {NoLock, [exists |-> TRUE, mtime |-> 0, creator |-> NoProc]}
    /\ pc = [p \in Procs |-> "idle"]
    /\ op = [p \in Procs |-> "none"]
    /\ acquired = [p \in Procs |-> FALSE]
    /\ touched = [p \in Procs |-> {}]
    /\ entry = [p \in Procs |-> "none"]
    /\ enteredAt = [p \in Procs |-> NoEntry]
    /\ result = [p \in Procs |-> NoResult]
    /\ AwQuiet
    /\ PubQuiet
    /\ FnQuiet

\* time passes
Tick ==
    /\ now < MaxTime
    /\ now' = now + 1
    /\ UNCHANGED <<lockFile, pc, op, acquired, touched, entry, enteredAt, result, awVars, pubVars, fnVars>>

\* api.py 823-839: sync() is called; SyncLock(...) is constructed and
\* __enter__ starts (lockutil.py 40-41, mkdir of the lock's directory).
StartSync(p) ==
    /\ pc[p] = "idle"
    /\ pc' = [pc EXCEPT ![p] = "exists"]
    /\ op' = [op EXCEPT ![p] = "sync"]
    /\ acquired' = [acquired EXCEPT ![p] = FALSE]
    /\ touched' = [touched EXCEPT ![p] = {}]
    /\ entry' = [entry EXCEPT ![p] = "none"]
    /\ enteredAt' = [enteredAt EXCEPT ![p] =
           IF ~lockFile.exists /\ (\A q \in Procs \ {p} : pc[q] \in BeforeCreate)
           THEN now ELSE NoEntry]
    /\ result' = [result EXCEPT ![p] = NoResult]
    /\ UNCHANGED <<now, lockFile, awVars, pubVars, fnVars>>

\* lockutil.py 44: self.lock_path.exists()
EnterExists(p) ==
    /\ pc[p] = "exists"
    /\ pc' = [pc EXCEPT ![p] = IF lockFile.exists THEN "stale" ELSE "open"]
    /\ UNCHANGED <<now, lockFile, op, acquired, touched, entry, enteredAt, result, awVars, pubVars, fnVars>>

\* lockutil.py 44, 26-32: _is_stale(); a file that vanished meanwhile is not stale
EnterIsStale(p) ==
    /\ pc[p] = "stale"
    /\ pc' = [pc EXCEPT ![p] = IF IsStale(lockFile, now) THEN "break" ELSE "open"]
    /\ UNCHANGED <<now, lockFile, op, acquired, touched, entry, enteredAt, result, awVars, pubVars, fnVars>>

\* lockutil.py 34-36, 45: _break_stale() unlinks whatever is at the lock path
EnterBreakStale(p) ==
    /\ pc[p] = "break"
    /\ lockFile' = NoLock
    /\ pc' = [pc EXCEPT ![p] = "open"]
    /\ UNCHANGED <<now, op, acquired, touched, entry, enteredAt, result, awVars, pubVars, fnVars>>

\* api.py 1040-1064: every SyncLockError leaving the with statement is
\* answered with the locked result.
SyncOnLockError(p, how) ==
    /\ pc' = [pc EXCEPT ![p] = "idle"]
    /\ entry' = [entry EXCEPT ![p] = how]
    /\ result' = [result EXCEPT ![p] = LockedResult]

\* lockutil.py 37-38: the unlink of the stale lock fails, SyncLockError
EnterBreakFail(p) ==
    /\ pc[p] = "break"
    /\ lockFile.exists
    /\ SyncOnLockError(p, "break_failed")
    /\ UNCHANGED <<now, lockFile, op, acquired, touched, enteredAt, awVars, pubVars, fnVars>>

\* A faulty variant of the create step: os.open without O_EXCL, which
\* succeeds whether or not the lock file exists (C1 must notice it).
EnterOpenOk_NoExcl(p) ==
    /\ pc[p] = "open"
    /\ lockFile' = [exists |-> TRUE, mtime |-> now, creator |-> p]
    /\ pc' = [pc EXCEPT ![p] = "write"]
    /\ UNCHANGED <<now, op, acquired, touched, entry, enteredAt, result, awVars, pubVars, fnVars>>

\* lockutil.py 47-49: os.open(O_CREAT | O_EXCL) creates the lock file
EnterOpenOk(p) ==
    /\ pc[p] = "open"
    /\ ~lockFile.exists
    /\ lockFile' = [exists |-> TRUE, mtime |-> now, creator |-> p]
    /\ pc' = [pc EXCEPT ![p] = "write"]
    /\ UNCHANGED <<now, op, acquired, touched, entry, enteredAt, result, awVars, pubVars, fnVars>>

\* A faulty variant of the locked path: the failed attempt removes the lock
\* file it ran into (C4 must notice it).
EnterOpenLocked_Removes(p) ==
    /\ pc[p] = "open"
    /\ lockFile.exists
    /\ lockFile' = NoLock
    /\ SyncOnLockError(p, "locked")
    /\ UNCHANGED <<now, op, acquired, touched, enteredAt, awVars, pubVars, fnVars>>

\* lockutil.py 50-52: FileExistsError -> SyncLockError("locked");
\* api.py 1040-1064 returns the locked result without entering the body.
EnterOpenLocked(p) ==
    /\ pc[p] = "open"
    /\ lockFile.exists
    /\ SyncOnLockError(p, "locked")
    /\ UNCHANGED <<now, lockFile, op, acquired, touched, enteredAt, awVars, pubVars, fnVars>>

\* lockutil.py 54-60, 68-69: pid/ts written through the descriptor that
\* os.open returned (the file this process created, if it is still the one
\* at the lock path), _acquired = True
EnterWriteOk(p) ==
    /\ pc[p] = "write"
    /\ lockFile' = IF lockFile.exists /\ lockFile.creator = p
                   THEN [lockFile EXCEPT !.mtime = now] ELSE lockFile
    /\ acquired' = [acquired EXCEPT ![p] = TRUE]
    /\ entry' = [entry EXCEPT ![p] = "acquired"]
    /\ pc' = [pc EXCEPT ![p] = "body"]
    /\ UNCHANGED <<now, op, touched, enteredAt, result, awVars, pubVars, fnVars>>

\* lockutil.py 61-66: writing pid/ts fails; the lock path is unlinked
\* (or the unlink fails too) and the error is re-raised; it is no
\* SyncLockError, so api.py 1066-1088 answers with the exception result.
EnterWriteFail(p, unlinked) ==
    /\ pc[p] = "write"
    /\ lockFile' = IF unlinked THEN NoLock ELSE lockFile
    /\ entry' = [entry EXCEPT ![p] = "error"]
    /\ result' = [result EXCEPT ![p] = ExceptionResult]
    /\ pc' = [pc EXCEPT ![p] = "idle"]
    /\ UNCHANGED <<now, op, acquired, touched, enteredAt, awVars, pubVars, fnVars>>

\* api.py 840-1031: the body of the with statement: scan, cold start,
\* merge, prune, push, registry bootstrap. Every step catches its own
\* exceptions, so the body always reaches the return statement.
SyncBody(p, scan_ok, push_ok) ==
    /\ pc[p] = "body"
    /\ touched' = [touched EXCEPT ![p] = FileKinds]
    /\ result' = [result EXCEPT ![p] = NormalResult(scan_ok, push_ok)]
    /\ pc' = [pc EXCEPT ![p] = "exit"]
    /\ UNCHANGED <<now, lockFile, op, acquired, entry, enteredAt, awVars, pubVars, fnVars>>

\* lockutil.py 71-79: __exit__ unlinks the lock path when _acquired
ExitOk(p) ==
    /\ pc[p] = "exit"
    /\ lockFile' = IF acquired[p] THEN NoLock ELSE lockFile
    /\ acquired' = [acquired EXCEPT ![p] = FALSE]
    /\ pc' = [pc EXCEPT ![p] = "idle"]
    /\ UNCHANGED <<now, op, touched, entry, enteredAt, result, awVars, pubVars, fnVars>>

\* lockutil.py 75-76: the unlink fails, SyncLockError("Failed to release
\* lock") replaces the return value of the with body; api.py 1040-1064
\* catches it as any other SyncLockError.
ExitFail(p) ==
    /\ pc[p] = "exit"
    /\ acquired[p]
    /\ lockFile.exists
    /\ pc' = [pc EXCEPT ![p] = "idle"]
    /\ result' = [result EXCEPT ![p] = LockedResult]
    /\ UNCHANGED <<now, lockFile, op, acquired, touched, entry, enteredAt, awVars, pubVars, fnVars>>

\* api.py 532-578 save_master, 1464-1497 prune_apply, 1283-1408
\* delete_card_by_id: called directly, none of them enters SyncLock.
StartUnlocked(p, o) ==
    /\ pc[p] = "idle"
    /\ pc' = [pc EXCEPT ![p] = "run"]
    /\ op' = [op EXCEPT ![p] = o]
    /\ acquired' = [acquired EXCEPT ![p] = FALSE]
    /\ touched' = [touched EXCEPT ![p] = {}]
    /\ entry' = [entry EXCEPT ![p] = "none"]
    /\ enteredAt' = [enteredAt EXCEPT ![p] = NoEntry]
    /\ result' = [result EXCEPT ![p] = NoResult]
    /\ UNCHANGED <<now, lockFile, awVars, pubVars, fnVars>>

\* api.py 562-568 / pruner.py 504-537 / api.py 1369-1379: the writes of
\* master document, aggregate page and per-folder pages.
UnlockedRun(p) ==
    /\ pc[p] = "run"
    /\ touched' = [touched EXCEPT ![p] = {"master", "index", "child"} \cup
                       (IF op[p] = "prune_apply" THEN {} ELSE {"idfile"})]
    /\ result' = [result EXCEPT ![p] = NormalResult(TRUE, TRUE)]
    /\ pc' = [pc EXCEPT ![p] = "idle"]
    /\ UNCHANGED <<now, lockFile, op, acquired, entry, enteredAt, awVars, pubVars, fnVars>>

Next ==
    \/ Tick
    \/ \E p \in Procs : StartSync(p)
    \/ \E p \in Procs : EnterExists(p)
    \/ \E p \in Procs : EnterIsStale(p)
    \/ \E p \in Procs : EnterBreakStale(p)
    \/ \E p \in Procs : EnterBreakFail(p)
    \/ \E p \in Procs : EnterOpenOk(p)
    \/ \E p \in Procs : EnterOpenLocked(p)
    \/ \E p \in Procs : EnterWriteOk(p)
    \/ \E p \in Procs, u \in BOOLEAN : EnterWriteFail(p, u)
    \/ \E p \in Procs, s \in BOOLEAN, u \in BOOLEAN : SyncBody(p, s, u)
    \/ \E p \in Procs : ExitOk(p)
    \/ \E p \in Procs : ExitFail(p)
    \/ \E p \in Procs, o \in UnlockedOps : StartUnlocked(p, o)
    \/ \E p \in Procs : UnlockedRun(p)

Spec == Init /\ [][Next]_vars

\* the same processes, started while a lock file left behind by a crashed
\* run is at the lock path
InitStale == Init /\ lockFile.exists

SpecStale == InitStale /\ [][Next]_vars

\* ======================================================================
\* SpecAW: atomic_write_text / atomic_write_bytes (fsutil.py 29-79), two
\* writers on the same destination.  The two functions differ only in how
\* the descriptor is opened (binary, or text with newline="\n", which
\* translates nothing), so one set of steps models both.
\* ======================================================================

InitAW ==
    /\ LockQuiet
    /\ PubQuiet
    /\ FnQuiet
    /\ dest \in {NoFile} \cup
                {[exists |-> TRUE, data |-> OldData, mode |-> md] : md \in {644, 664}}
    /\ tmp = [w \in Procs |-> NoFile]
    /\ awpc = [w \in Procs |-> "idle"]
    /\ awData = [w \in Procs |-> <<>>]
    /\ awFailedAt = [w \in Procs |-> "none"]
    /\ awUnlinkFailed = [w \in Procs |-> FALSE]
    /\ awReplaced = [w \in Procs |-> FALSE]
    /\ strayTmp = FALSE

\* fsutil.py 29-34 / 52-64: the call; abspath, dirname, makedirs
AwStart(w, data) ==
    /\ awpc[w] = "idle"
    /\ awpc' = [awpc EXCEPT ![w] = "mkstemp"]
    /\ awData' = [awData EXCEPT ![w] = data]
    /\ awFailedAt' = [awFailedAt EXCEPT ![w] = "none"]
    /\ awUnlinkFailed' = [awUnlinkFailed EXCEPT ![w] = FALSE]
    /\ awReplaced' = [awReplaced EXCEPT ![w] = FALSE]
    \* the new call knows nothing of a file an earlier call left behind
    /\ strayTmp' = (strayTmp \/ tmp[w].exists)
    /\ tmp' = [tmp EXCEPT ![w] = NoFile]
    /\ UNCHANGED <<dest, lockVars, pubVars, fnVars>>

\* fsutil.py 35 / 65: mkstemp creates a new, uniquely named, empty file
AwMkstemp(w) ==
    /\ awpc[w] = "mkstemp"
    /\ ~tmp[w].exists
    /\ tmp' = [tmp EXCEPT ![w] = FreshTmp]
    /\ awpc' = [awpc EXCEPT ![w] = "write"]
    /\ UNCHANGED <<dest, awData, awFailedAt, awUnlinkFailed, awReplaced, strayTmp, lockVars, pubVars, fnVars>>

\* fsutil.py 34-35 / 64-65: makedirs or mkstemp raises, outside the try:
\* nothing was created and nothing is cleaned up
AwMkstempFail(w) ==
    /\ awpc[w] = "mkstemp"
    /\ awpc' = [awpc EXCEPT ![w] = "idle"]
    /\ awFailedAt' = [awFailedAt EXCEPT ![w] = "mkstemp"]
    /\ UNCHANGED <<dest, tmp, awData, awUnlinkFailed, awReplaced, strayTmp, lockVars, pubVars, fnVars>>

\* A faulty variant of the write step: the content goes to the destination
\* itself while it is written, so a reader sees a prefix (C40 must notice it).
AwWriteChunk_InPlace(w) ==
    /\ awpc[w] = "write"
    /\ tmp[w].exists
    /\ Len(tmp[w].data) < Len(awData[w])
    /\ tmp' = [tmp EXCEPT ![w].data = Append(@, awData[w][Len(@) + 1])]
    /\ dest' = [exists |-> TRUE, data |-> tmp'[w].data, mode |-> tmp[w].mode]
    /\ UNCHANGED <<awpc, awData, awFailedAt, awUnlinkFailed, awReplaced, strayTmp, lockVars, pubVars, fnVars>>

\* fsutil.py 37-38 / 67-68: the content reaches the temporary file, here
\* one element at a time
AwWriteChunk(w) ==
    /\ awpc[w] = "write"
    /\ tmp[w].exists
    /\ Len(tmp[w].data) < Len(awData[w])
    /\ tmp' = [tmp EXCEPT ![w].data = Append(@, awData[w][Len(@) + 1])]
    /\ UNCHANGED <<dest, awpc, awData, awFailedAt, awUnlinkFailed, awReplaced, strayTmp, lockVars, pubVars, fnVars>>

\* fsutil.py 39-40 / 69-70: flush, fsync, close
AwFsync(w) ==
    /\ awpc[w] = "write"
    /\ tmp[w].exists
    /\ Len(tmp[w].data) = Len(awData[w])
    /\ awpc' = [awpc EXCEPT ![w] = "chmod"]
    /\ UNCHANGED <<dest, tmp, awData, awFailedAt, awUnlinkFailed, awReplaced, strayTmp, lockVars, pubVars, fnVars>>

\* fsutil.py 37-40 / 67-70: write, flush or fsync raises (disk full, I/O
\* error); whatever was written so far stays in the temporary file
AwWriteFail(w) ==
    /\ awpc[w] = "write"
    /\ awpc' = [awpc EXCEPT ![w] = "cleanup"]
    /\ awFailedAt' = [awFailedAt EXCEPT ![w] = "write"]
    /\ UNCHANGED <<dest, tmp, awData, awUnlinkFailed, awReplaced, strayTmp, lockVars, pubVars, fnVars>>

\* fsutil.py 15-20, 41-42 / 71-72: _inherit_mode copies the permission bits
\* of an existing destination; a missing destination is skipped
AwInheritMode(w) ==
    /\ awpc[w] = "chmod"
    /\ tmp[w].exists
    /\ tmp' = [tmp EXCEPT ![w].mode = IF dest.exists THEN dest.mode ELSE @]
    /\ awpc' = [awpc EXCEPT ![w] = "replace"]
    /\ UNCHANGED <<dest, awData, awFailedAt, awUnlinkFailed, awReplaced, strayTmp, lockVars, pubVars, fnVars>>

\* fsutil.py 17-19: os.stat or os.chmod raises something other than
\* FileNotFoundError (PermissionError): it propagates to the handler
AwInheritModeFail(w) ==
    /\ awpc[w] = "chmod"
    /\ awpc' = [awpc EXCEPT ![w] = "cleanup"]
    /\ awFailedAt' = [awFailedAt EXCEPT ![w] = "chmod"]
    /\ UNCHANGED <<dest, tmp, awData, awUnlinkFailed, awReplaced, strayTmp, lockVars, pubVars, fnVars>>

\* fsutil.py 23-25: os.replace renames the temporary file onto the
\* destination in one step
AwReplace(w) ==
    /\ awpc[w] = "replace"
    /\ tmp[w].exists
    /\ dest' = [exists |-> TRUE, data |-> tmp[w].data, mode |-> tmp[w].mode]
    /\ tmp' = [tmp EXCEPT ![w] = NoFile]
    /\ awReplaced' = [awReplaced EXCEPT ![w] = TRUE]
    /\ awpc' = [awpc EXCEPT ![w] = "fsyncdir"]
    /\ UNCHANGED <<awData, awFailedAt, awUnlinkFailed, strayTmp, lockVars, pubVars, fnVars>>

\* A faulty variant of the failing rename: a copy that stops half way, so
\* the destination already holds what the temporary file held (C7 must
\* notice it).
AwReplaceFail_Partial(w) ==
    /\ awpc[w] = "replace"
    /\ tmp[w].exists
    /\ dest' = [exists |-> TRUE, data |-> tmp[w].data, mode |-> tmp[w].mode]
    /\ awpc' = [awpc EXCEPT ![w] = "cleanup"]
    /\ awFailedAt' = [awFailedAt EXCEPT ![w] = "replace"]
    /\ UNCHANGED <<tmp, awData, awUnlinkFailed, awReplaced, strayTmp, lockVars, pubVars, fnVars>>

\* fsutil.py 25: os.replace raises; neither file changes
AwReplaceFail(w) ==
    /\ awpc[w] = "replace"
    /\ awpc' = [awpc EXCEPT ![w] = "cleanup"]
    /\ awFailedAt' = [awFailedAt EXCEPT ![w] = "replace"]
    /\ UNCHANGED <<dest, tmp, awData, awUnlinkFailed, awReplaced, strayTmp, lockVars, pubVars, fnVars>>

\* fsutil.py 4-12, 26: _fsync_dir; an OSError is swallowed, so the call
\* returns normally either way
AwFsyncDir(w) ==
    /\ awpc[w] = "fsyncdir"
    /\ awpc' = [awpc EXCEPT ![w] = "idle"]
    /\ UNCHANGED <<dest, tmp, awData, awFailedAt, awUnlinkFailed, awReplaced, strayTmp, lockVars, pubVars, fnVars>>

\* fsutil.py 44-49 / 74-79: the handler unlinks the temporary file, ignores
\* an OSError of that unlink, and re-raises
AwCleanup(w, unlinked) ==
    /\ awpc[w] = "cleanup"
    /\ tmp' = [tmp EXCEPT ![w] = IF unlinked THEN NoFile ELSE @]
    /\ awUnlinkFailed' = [awUnlinkFailed EXCEPT ![w] = ~unlinked]
    /\ awpc' = [awpc EXCEPT ![w] = "idle"]
    /\ UNCHANGED <<dest, awData, awFailedAt, awReplaced, strayTmp, lockVars, pubVars, fnVars>>

NextAW ==
    \/ \E w \in Procs, data \in AwInputs : AwStart(w, data)
    \/ \E w \in Procs : AwMkstemp(w)
    \/ \E w \in Procs : AwMkstempFail(w)
    \/ \E w \in Procs : AwWriteChunk(w)
    \/ \E w \in Procs : AwFsync(w)
    \/ \E w \in Procs : AwWriteFail(w)
    \/ \E w \in Procs : AwInheritMode(w)
    \/ \E w \in Procs : AwInheritModeFail(w)
    \/ \E w \in Procs : AwReplace(w)
    \/ \E w \in Procs : AwReplaceFail(w)
    \/ \E w \in Procs : AwFsyncDir(w)
    \/ \E w \in Procs, unlinked \in BOOLEAN : AwCleanup(w, unlinked)

SpecAW == InitAW /\ [][NextAW]_vars

\* ======================================================================
\* SpecPub: the content pipeline of one process: sync (cold start, merge,
\* prune-apply, push), save_master, prune_apply, and what the user does to
\* the folder tree in between.  Each operation is one step.
\*
\* A card is a record of the attributes and parts the code reads:
\*   title (the h2 text), dataCard, cid (data-card-id), hidden (data-hidden),
\*   order (data-order), intent (data-delete-intent), locked (data-locked)
\*   and body, the children of div.inner: a sequence of elements, each with
\*   its tag, whether it carries an on* attribute, and its href/src as a
\*   sequence of path tokens (<<>> = no such attribute).
\* Thumbnails, the CSS asset and the registry file are not part of this
\* state, and of a published block only its title and body are kept (not
\* its data-card-id, data-hidden and data-order attributes).
\* ======================================================================

\* a card without data-created-at
NoStamp == 0

Node(tg, hasOn, u) == [tag |-> tg, on |-> hasOn, url |-> u]

Card(t, h, o, b) ==
    [title |-> t, dataCard |-> t, cid |-> NoId, hidden |-> h, order |-> o,
     body |-> b, intent |-> "", locked |-> FALSE, created |-> NoStamp]

\* sorted(..., key=lambda p: p.name): code point order, "B" before "a"
NameRank(n) ==
    CASE n = ".x" -> 0 [] n = "B" -> 1 [] n = "a" -> 2 [] n = "css" -> 3
      [] n = "thumbs" -> 4 [] OTHER -> 5

\* builder.py 70, 79 and api.py 1147, 1272: names starting with "." and
\* the name thumbs are passed over
CardFolders(names) == {n \in names : n \notin {".x", "thumbs"}}

RECURSIVE SortedNames(_)
SortedNames(S) ==
    IF S = {} THEN <<>>
    ELSE LET n == CHOOSE x \in S : \A y \in S : NameRank(x) <= NameRank(y)
         IN <<n>> \o SortedNames(S \ {n})

\* uuid.uuid4(): an identifier that exists nowhere yet
IdPool == <<"i1", "i2", "i3", "i4", "i5", "i6", "i7", "i8">>

FreshId(taken) ==
    IdPool[CHOOSE k \in 1..Len(IdPool) :
              /\ IdPool[k] \notin taken
              /\ \A j \in 1..(k - 1) : IdPool[j] \in taken]

\* ---- sanitizer.py ----
DangerTags == {"script", "style", "iframe", "object", "embed", "link",
               "form", "input", "button", "video", "audio"}

AllowedTags == {"div", "p", "img", "a", "ul", "ol", "li", "br", "h2", "h3",
                "h4", "span", "strong", "em", "figure", "figcaption"}

ALLOWED_SCHEMES == {"http://", "https://", "mailto:", "tel:", "/", "./", "../"}

\* the first tokens that match ^[a-z]+:
SchemeTokens == {"javascript:", "data:", "vbscript:", "http:", "https:",
                 "http://", "https://", "mailto:", "tel:"}

\* sanitizer.py 70-81
IsAllowedUrl(u) ==
    IF u = <<>> THEN TRUE
    ELSE IF Head(u) = "javascript:" THEN FALSE
    ELSE IF Head(u) = "data:" THEN FALSE
    ELSE Head(u) \in ALLOWED_SCHEMES \/ Head(u) \notin SchemeTokens

\* mutation of SanitizeNode: the on* attribute stays on the element
SanitizeNode_KeepOn(n) ==
    [tag |-> IF n.tag \in AllowedTags THEN n.tag ELSE "#text",
     on  |-> n.on,
     url |-> IF n.tag \notin AllowedTags THEN <<>>
             ELSE IF n.tag \in {"a", "img"} /\ ~IsAllowedUrl(n.url) THEN <<>>
             ELSE n.url]

\* sanitizer.py 168-204, for one element that survived the removals
SanitizeNode(n) ==
    [tag |-> IF n.tag \in AllowedTags THEN n.tag ELSE "#text",
     on  |-> FALSE,
     url |-> IF n.tag \notin AllowedTags THEN <<>>
             ELSE IF n.tag \in {"a", "img"} /\ ~IsAllowedUrl(n.url) THEN <<>>
             ELSE n.url]

\* sanitizer.py 126-227, on the children of div.inner
SanitizeForPublish(body) ==
    LET kept == SelectSeq(body, LAMBDA n : n.tag \notin DangerTags)
    IN [i \in 1..Len(kept) |-> SanitizeNode(kept[i])]

\* ---- htmlops.py ----
\* htmlops.py 330-353: the children of div.inner
ExtractInnerHtmlOnly(card) == card.body

\* htmlops.py 18-21: first tokens matched by _SKIP_PREFIX; a file name such
\* as x.png or index.html matches its domain alternative, master_index.html
\* (with an underscore before the dot) does not
SkipPrefixTokens == {"http://", "https://", "www.", "/", "../", "#",
                     "resource/", "mailto:", "tel:", "data:",
                     "x.png", "index.html"}

IsBare(u) == u # <<>> /\ Head(u) \notin SkipPrefixTokens

StartsWithSelf(u, folder) ==
    Len(u) >= 3 /\ u[1] = "resource/" /\ u[2] = folder /\ u[3] = "/"

\* mutation of AdjustUrl: a reference into another folder only loses the
\* content-root prefix, whichever page it is rewritten for
AdjustUrl_NoSibling(u, folder, for_resource_master) ==
    IF u = <<>> THEN u
    ELSE IF StartsWithSelf(u, folder)
    THEN IF for_resource_master
         THEN <<folder, "/">> \o SubSeq(u, 4, Len(u))
         ELSE SubSeq(u, 4, Len(u))
    ELSE IF Head(u) = "resource/"
    THEN Tail(u)
    ELSE IF IsBare(u)
    THEN IF for_resource_master THEN <<folder, "/">> \o u ELSE u
    ELSE u

\* htmlops.py 284-325, for one src/href value
AdjustUrl(u, folder, for_resource_master) ==
    IF u = <<>> THEN u
    ELSE IF StartsWithSelf(u, folder)
    THEN IF for_resource_master
         THEN <<folder, "/">> \o SubSeq(u, 4, Len(u))
         ELSE SubSeq(u, 4, Len(u))
    ELSE IF Head(u) = "resource/"
    THEN IF for_resource_master THEN Tail(u) ELSE <<"../">> \o Tail(u)
    ELSE IF IsBare(u)
    THEN IF for_resource_master THEN <<folder, "/">> \o u ELSE u
    ELSE u

\* htmlops.py 183-327 (BeautifulSoup path)
AdjustPathsForFolder(body, folder, for_resource_master) ==
    [i \in 1..Len(body) |->
        IF body[i].tag \in {"img", "a"}
        THEN [body[i] EXCEPT !.url = AdjustUrl(@, folder, for_resource_master)]
        ELSE body[i]]

\* htmlops.py 163-180: anchors back to the aggregate page are dropped
StripBackToMaster(body) ==
    SelectSeq(body, LAMBDA n :
        ~(n.tag = "a" /\ n.url \in {<<"../", "master_index.html">>,
                                    <<"master_index.html">>}))

\* ---- builder.py ----
\* builder.py 346-360 and 425-426: an entry is skipped when hidden is true
EntryHidden(e) == e.hidden = "true"

\* builder.py 410-457: the blocks in the order given, hidden ones skipped
RenderMasterIndex(entries) ==
    LET shown == SelectSeq(entries, LAMBDA e : ~EntryHidden(e))
    IN [exists |-> TRUE,
        cards |-> [i \in 1..Len(shown) |->
                     [title |-> shown[i].title, body |-> shown[i].html]]]

\* builder.py 460-499
RenderChildIndex(title, html_body, card_id) ==
    \* back: the page ends with the link to ../master_index.html (478-493)
    [exists |-> TRUE, title |-> title, body |-> html_body, back |-> TRUE]

\* api.py 581-592 (defined by the class, called by nothing)
DefaultOrder == 1000

OrderValue(o) == CASE o = "1" -> 1 [] o = "2000" -> 2000 [] OTHER -> DefaultOrder

\* str.lower() and the comparison of the lowered titles
LowerRank(t) == CASE t = "a" -> 1 [] t = "B" -> 2 [] OTHER -> 3

CardSortKey(card) == <<OrderValue(card.order), LowerRank(card.title)>>

\* ---- the files as one value, so that the steps of an operation compose ----
World ==
    [dirs |-> dirs, idFile |-> idFile, child |-> child, master |-> master,
     agg |-> agg, registry |-> registry, regWritable |-> regWritable, now |-> clock,
     wroteMaster |-> FALSE, wroteAgg |-> FALSE,
     wroteChild |-> FALSE, byPush |-> FALSE, ok |-> TRUE,
     foldersAdded |-> 0, prunedFromMaster |-> 0,
     hard_deleted |-> 0, hard_skipped_locked |-> 0,
     scanOk |-> TRUE, pushOk |-> TRUE, errors |-> 0, failedWrite |-> "none"]

\* master_html == "" (api.py 599, 1109): no file, or a file without content
TextEmpty(m) == ~m.exists \/ (~m.pre /\ m.cards = <<>>)

CardName(c) == IF c.dataCard # "" THEN c.dataCard ELSE c.title

IdsInUse(w) ==
    {w.idFile[f] : f \in DirNames} \cup
    {w.master.cards[i].cid : i \in 1..Len(w.master.cards)}

\* builder.py 52-108: every folder gets an identifier file; a folder whose
\* identifier an earlier folder already has gets a new one
\* A variant of the loop that never re-issues an identifier two folders
\* share.
RECURSIVE EnsureIdsFrom_KeepShared(_, _, _, _, _, _)
EnsureIdsFrom_KeepShared(names, ids, folder_to_id, used_ids, taken, failing) ==
    IF names = <<>> THEN [idFile |-> ids, folder_to_id |-> folder_to_id]
    ELSE LET d == Head(names)
             cur == ids[d]
             cid == IF cur = NoId THEN FreshId(taken) ELSE cur
         IN IF cur = NoId /\ d \in failing
            THEN EnsureIdsFrom_KeepShared(Tail(names), ids, folder_to_id, used_ids,
                                          taken \cup {cid}, failing)
            ELSE EnsureIdsFrom_KeepShared(Tail(names), [ids EXCEPT ![d] = cid],
                                          [folder_to_id EXCEPT ![d] = cid],
                                          used_ids \cup {cid}, taken \cup {cid},
                                          failing)

\* builder.py 78-108, the loop over the folders in name order.  ids is the
\* content of the identifier files (read_card_id / write_card_id), failing
\* the folders whose write_card_id raises, taken the identifiers uuid4
\* cannot return again.
RECURSIVE EnsureIdsFrom(_, _, _, _, _, _)
EnsureIdsFrom(names, ids, folder_to_id, used_ids, taken, failing) ==
    IF names = <<>> THEN [idFile |-> ids, folder_to_id |-> folder_to_id]
    ELSE LET d == Head(names)
             cur == ids[d]
             \* builder.py 85-92
             cid1 == IF cur = NoId THEN FreshId(taken) ELSE cur
             taken1 == taken \cup {cid1}
             ids1 == IF cur = NoId THEN [ids EXCEPT ![d] = cid1] ELSE ids
             \* builder.py 95-103
             shared == cid1 \in used_ids
             cid == IF shared THEN FreshId(taken1) ELSE cid1
             taken2 == taken1 \cup {cid}
         IN IF cur = NoId /\ d \in failing
            THEN EnsureIdsFrom(Tail(names), ids, folder_to_id, used_ids, taken1,
                               failing)
            ELSE IF shared /\ d \in failing
            THEN EnsureIdsFrom(Tail(names), ids1, folder_to_id, used_ids, taken2,
                               failing)
            ELSE EnsureIdsFrom(Tail(names), [ids1 EXCEPT ![d] = cid],
                               [folder_to_id EXCEPT ![d] = cid],
                               used_ids \cup {cid}, taken2, failing)

\* builder.py 52-108: the identifier files afterwards and the mapping
\* returned (NoId = the folder is not in the mapping)
ensure_card_ids(w, failing) ==
    EnsureIdsFrom(SortedNames(CardFolders(w.dirs)), w.idFile,
                  [f \in DirNames |-> NoId], {}, IdsInUse(w) \ {NoId}, failing)

\* thumbops.py 256-277 and api.py 1219-1255: the default card of a folder
CleanBlock(name) == Card(name, "", "", <<>>)

\* A variant that emits the block of every folder twice.
rebuild_master_Twice(w) ==
    LET names == SortedNames(CardFolders(w.dirs))
    IN [w EXCEPT !.master = [exists |-> TRUE, pre |-> FALSE,
                             cards |-> [i \in 1..(2 * Len(names)) |->
                                          CleanBlock(names[(i + 1) \div 2])]],
                 !.wroteMaster = TRUE]

\* api.py 1260-1280
rebuild_master(w) ==
    LET names == SortedNames(CardFolders(w.dirs))
    IN [w EXCEPT !.master = [exists |-> TRUE, pre |-> FALSE,
                             cards |-> [i \in 1..Len(names) |-> CleanBlock(names[i])]],
                 !.wroteMaster = TRUE]

\* api.py 884-896
ColdStart(w) ==
    IF ~w.master.exists /\ ~w.agg.exists THEN rebuild_master(w) ELSE w

\* api.py 1116-1135: id_to_card, the last card carrying each identifier
IdToCard(cards) ==
    [c \in {cards[i].cid : i \in 1..Len(cards)} \ {NoId} |->
        CHOOSE k \in 1..Len(cards) :
            /\ cards[k].cid = c
            /\ \A j \in 1..Len(cards) : cards[j].cid = c => j <= k]

\* api.py 1143-1255, one folder of the loop.  st.cards keeps every card by
\* position, st.alive the positions still in the document, st.names is
\* existing_names and st.reg is name_to_cards as (name, position) pairs.
MergeFolder(st, name, card_id, id_to_card) ==
    IF card_id # NoId /\ card_id \in DOMAIN id_to_card
    THEN LET k == id_to_card[card_id]
             reg1 == st.reg \cup {<<name, k>>}
             dups == {j \in 1..Len(st.cards) :
                        /\ <<name, j>> \in reg1
                        /\ j # k
                        /\ st.cards[j].cid # card_id}
         IN [st EXCEPT
                !.cards[k] = [@ EXCEPT !.dataCard = name, !.cid = card_id,
                                       !.title = name],
                !.names = @ \cup {name},
                !.alive = @ \ dups,
                !.reg = {pr \in reg1 : pr[1] # name} \cup {<<name, k>>}]
    ELSE IF name \in st.names THEN st
    ELSE [st EXCEPT
             \* api.py 1227-1240: data-created-at from the folder's mtime
             !.cards = Append(@, [CleanBlock(name) EXCEPT !.created = st.stamp]),
             !.alive = @ \cup {Len(st.cards) + 1},
             !.names = @ \cup {name},
             !.reg = @ \cup {<<name, Len(st.cards) + 1>>},
             !.added_count = @ + 1]

RECURSIVE MergeFolders(_, _, _, _)
MergeFolders(st, names, ids, id_to_card) ==
    IF names = <<>> THEN st
    ELSE MergeFolders(MergeFolder(st, Head(names), ids[Head(names)], id_to_card),
                      Tail(names), ids, id_to_card)

RECURSIVE AliveCards(_, _, _)
AliveCards(cards, alive, i) ==
    IF i > Len(cards) THEN <<>>
    ELSE (IF i \in alive THEN <<cards[i]>> ELSE <<>>) \o AliveCards(cards, alive, i + 1)

\* api.py 1116-1255: the collection of the cards and the folder loop
MergeState(w) ==
    LET cards == IF w.master.exists THEN w.master.cards ELSE <<>>
        named == {i \in 1..Len(cards) : CardName(cards[i]) # ""}
        st0 == [cards |-> cards,
                alive |-> 1..Len(cards),
                names |-> {CardName(cards[i]) : i \in named},
                reg |-> {<<CardName(cards[i]), i>> : i \in named},
                added_count |-> 0,
                stamp |-> w.now]
    IN MergeFolders(st0, SortedNames(CardFolders(w.dirs)), w.idFile, IdToCard(cards))

\* api.py 1090-1257: the merged document
EnsureCardsForNewFolders(w) ==
    LET st == MergeState(w)
    IN [exists |-> TRUE,
        \* an empty text is parsed as <div id='content'></div> (api.py 1109-1110)
        pre |-> IF TextEmpty(w.master) THEN TRUE ELSE w.master.pre,
        cards |-> AliveCards(st.cards, st.alive, 1)]

\* the text the merge compares with (api.py 902-906): "" when there is no file
CurrentText(m) == IF m.exists THEN m ELSE [NoMaster EXCEPT !.exists = TRUE]

\* api.py 898-920: the merged document is written when it differs
Merge(w) ==
    LET merged == EnsureCardsForNewFolders(w)
        added_count == MergeState(w).added_count
    IN IF merged # CurrentText(w.master)
       THEN [w EXCEPT !.master = merged, !.wroteMaster = TRUE,
                      !.foldersAdded = added_count]
       ELSE [w EXCEPT !.foldersAdded = added_count]

\* ---- pruner.py ----
\* pruner.py 78-88: the folder named by a src/href (".../<slug>/x.png",
\* ".../<slug>/index.html")
UrlSlugs(u) ==
    IF Len(u) >= 3 /\ u[Len(u)] \in {"x.png", "index.html"} /\ u[Len(u) - 1] = "/"
    THEN {u[Len(u) - 2]} ELSE {}

BodySlugs(body) ==
    UNION {IF body[i].tag \in {"a", "img"} THEN UrlSlugs(body[i].url) ELSE {} :
           i \in 1..Len(body)}

\* pruner.py 64-110: slug candidates of a page: h2 texts and path segments
ExtractSlugs(cards) ==
    ({cards[i].title : i \in 1..Len(cards)} \ {""}) \cup
    UNION {BodySlugs(cards[i].body) : i \in 1..Len(cards)}

\* pruner.py 39-58: _HIDDEN_DIR matches the names ".", "__pycache__",
\* "_tmp" and "_cache" only; thumbs and css are the shared directories
list_fs_slugs(names) == {n \in names : n \notin {"thumbs", "css"}}

\* pruner.py 286-336, without the thumbnail files
make_report(w) ==
    LET fs_slugs == list_fs_slugs(w.dirs)
        mc_slugs == IF w.master.exists THEN ExtractSlugs(w.master.cards) ELSE {}
        mi_slugs == IF w.agg.exists THEN ExtractSlugs(w.agg.cards) ELSE {}
    IN [folders_missing_in_fs |-> (mc_slugs \cup mi_slugs) \ fs_slugs,
        child_indexes_missing |-> {f \in fs_slugs : ~w.child[f].exists},
        orphans_in_master_index_only |-> mi_slugs \ mc_slugs]

\* pruner.py 432-437: cards marked for hard deletion and locked
LockedHard(cards) ==
    {i \in 1..Len(cards) : cards[i].intent = "hard" /\ cards[i].locked}

\* pruner.py 432-458: cards marked for hard deletion and not locked
HardTargets(cards) ==
    {i \in 1..Len(cards) :
        /\ cards[i].intent = "hard"
        /\ ~cards[i].locked
        /\ (IF cards[i].title # "" THEN cards[i].title ELSE cards[i].dataCard) # ""}

HardSlug(c) == IF c.title # "" THEN c.title ELSE c.dataCard

\* pruner.py 476-505: the first card that names the folder
FirstCardFor(cards, slug) ==
    LET hits == {i \in 1..Len(cards) : cards[i].title = slug \/ cards[i].dataCard = slug}
    IN IF hits = {} THEN 0 ELSE CHOOSE i \in hits : \A j \in hits : i <= j

\* pruner.py 408-555, with the report computed on entry (api.py 1475-1480)
prune_apply(w) ==
    LET report == make_report(w)
        cards0 == IF w.master.exists THEN w.master.cards ELSE <<>>
        hard == HardTargets(cards0)
        gone == {HardSlug(cards0[i]) : i \in hard} \cap w.dirs
        targets == report.folders_missing_in_fs
        keep == {i \in 1..Len(cards0) :
                    /\ i \notin hard
                    /\ cards0[i].title \notin targets
                    /\ cards0[i].dataCard \notin targets}
        cards == AliveCards(cards0, keep, 1)
        dirs1 == w.dirs \ gone
        rebuilt == {f \in report.child_indexes_missing : FirstCardFor(cards, f) # 0}
        \* _write_atomic creates the parent directory (pruner.py 405)
        dirs2 == dirs1 \cup rebuilt
        titled == SelectSeq(cards, LAMBDA c : c.title # "")
        folders_for_master ==
            [i \in 1..Len(titled) |->
                [title |-> titled[i].title,
                 html |-> StripBackToMaster(AdjustPathsForFolder(
                              ExtractInnerHtmlOnly(titled[i]), titled[i].title, TRUE)),
                 id |-> NoId, hidden |-> "none"]]
    IN [w EXCEPT
           !.dirs = dirs2,
           !.idFile = [f \in DirNames |-> IF f \in gone THEN NoId ELSE w.idFile[f]],
           !.child = [f \in DirNames |->
                        IF f \in rebuilt
                        THEN RenderChildIndex(f,
                                 AdjustPathsForFolder(
                                     ExtractInnerHtmlOnly(cards[FirstCardFor(cards, f)]),
                                     f, FALSE),
                                 NoId)
                        ELSE IF f \in gone THEN NoPage ELSE w.child[f]],
           !.master = [exists |-> TRUE,
                       pre |-> w.master.exists /\ w.master.pre,
                       cards |-> cards],
           !.agg = RenderMasterIndex(folders_for_master),
           !.wroteMaster = TRUE,
           !.wroteAgg = TRUE,
           !.wroteChild = (w.wroteChild \/ rebuilt # {}),
           !.prunedFromMaster = Len(cards0) - Len(cards),
           \* one rmtree per folder found on disk (pruner.py 449-451)
           !.hard_deleted = Cardinality(gone),
           !.hard_skipped_locked = Cardinality(LockedHard(cards0))]

\* ---- api.py 595-820 ----
\* api.py 661-668
AsBool(v) == IF v = "" THEN "none" ELSE IF v = "true" THEN "true" ELSE "false"

\* mutation of LastCardTitled: hidden cards get no page
LastCardTitled_Shown(cards, t) ==
    LET hits == {i \in 1..Len(cards) : cards[i].title = t /\ cards[i].hidden # "true"}
    IN IF hits = {} THEN 0 ELSE CHOOSE i \in hits : \A j \in hits : j <= i

\* the last card of the document with this title (a later write of the
\* same per-folder page replaces an earlier one)
LastCardTitled(cards, t) ==
    LET hits == {i \in 1..Len(cards) : cards[i].title = t}
    IN IF hits = {} THEN 0 ELSE CHOOSE i \in hits : \A j \in hits : j <= i

\* mutation of InjectCardId: the cleaned body is stored with the id
InjectCardId_Cleaned(c, card_id) ==
    [c EXCEPT !.cid = card_id, !.body = SanitizeForPublish(c.body)]

\* api.py 686-689: card_div["data-card-id"] = card_id, on the parsed master
InjectCardId(c, card_id) == [c EXCEPT !.cid = card_id]

push_master_to_resource(w) ==
    IF TextEmpty(w.master) THEN w
    ELSE
    LET ensured == ensure_card_ids(w, {})
        \* folder_id_map.get(title): None for a name ensure_card_ids skips
        folder_id_map == ensured.folder_to_id
        cards0 == w.master.cards
        \* api.py 686-689: data-card-id injected by title
        \* api.py 640-658: data-created-at is filled in when it is missing
        stamped == [i \in 1..Len(cards0) |->
                    IF cards0[i].title # "" /\ cards0[i].created = NoStamp
                    THEN [cards0[i] EXCEPT !.created = w.now]
                    ELSE cards0[i]]
        cards == [i \in 1..Len(cards0) |->
                    IF /\ cards0[i].title # ""
                       /\ cards0[i].title \in w.dirs
                       /\ folder_id_map[cards0[i].title] # NoId
                    THEN InjectCardId(stamped[i], folder_id_map[cards0[i].title])
                    ELSE stamped[i]]
        titled == SelectSeq(cards, LAMBDA c : c.title # "")
        \* api.py 745: hidden cards are not passed to the renderer
        shown == SelectSeq(titled, LAMBDA c : AsBool(c.hidden) # "true")
        cards_for_master ==
            [i \in 1..Len(shown) |->
                [title |-> shown[i].title,
                 html |-> StripBackToMaster(AdjustPathsForFolder(
                              SanitizeForPublish(ExtractInnerHtmlOnly(shown[i])),
                              shown[i].title, TRUE)),
                 id |-> IF shown[i].title \in w.dirs
                        THEN folder_id_map[shown[i].title] ELSE NoId,
                 hidden |-> AsBool(shown[i].hidden)]]
        withPage == {f \in w.dirs : LastCardTitled(cards, f) # 0}
    IN [w EXCEPT
           !.idFile = ensured.idFile,
           !.agg = RenderMasterIndex(cards_for_master),
           !.master = [w.master EXCEPT !.cards = cards],
           !.child = [f \in DirNames |->
                        IF f \in withPage
                        THEN RenderChildIndex(f,
                                 AdjustPathsForFolder(
                                     SanitizeForPublish(ExtractInnerHtmlOnly(
                                         cards[LastCardTitled(cards, f)])),
                                     f, FALSE),
                                 folder_id_map[f])
                        ELSE w.child[f]],
           !.wroteMaster = TRUE,
           !.wroteAgg = TRUE,
           !.wroteChild = (w.wroteChild \/ withPage # {}),
           !.byPush = TRUE]

\* the writes of the push that can raise: fail names the first one that does
\* ("forced" is SUKSUKIDX_FAIL_PUSH=1, raised before the push is called)
PushFails == {"none", "forced", "agg", "master", "child"}

\* api.py 978-992: what sync is left with when the push p of the files w
\* is cut short by a failing write
push_outcome(w, p, fail) ==
    LET pages == {f \in w.dirs : LastCardTitled(p.master.cards, f) # 0}
    IN IF fail = "forced"
       THEN [w EXCEPT !.pushOk = FALSE, !.errors = @ + 1]
       ELSE IF fail = "none" \/ TextEmpty(w.master) THEN p
       ELSE IF fail = "agg"
       \* api.py 764-765 raises: nothing is written, sync catches (989-992)
       THEN [w EXCEPT !.idFile = p.idFile, !.pushOk = FALSE, !.errors = @ + 1,
                      !.failedWrite = "agg"]
       ELSE IF fail = "master"
       \* api.py 768-772: caught and printed inside the push
       THEN [p EXCEPT !.master = w.master, !.wroteMaster = w.wroteMaster,
                      !.failedWrite = "master"]
       ELSE IF pages = {} THEN p
       \* api.py 814 raises at the first per-folder page
       ELSE [p EXCEPT !.child = w.child, !.wroteChild = w.wroteChild,
                      !.pushOk = FALSE, !.errors = @ + 1,
                      !.failedWrite = "child"]

\* api.py 978-992 around api.py 595-820
push_run(w, fail) == push_outcome(w, push_master_to_resource(w), fail)

\* ---- what the editor may send to save_master ----
UrlJs == <<"javascript:", "x">>

UrlResJs == <<"resource/", "javascript:", "x">>

UrlSelfImg(folder) == <<"resource/", folder, "/", "x.png">>

UrlBack == <<"../", "master_index.html">>

BodyPlain == <<Node("p", FALSE, <<>>)>>

BodyEvil == <<Node("script", FALSE, <<>>), Node("a", TRUE, UrlJs)>>

BodyResJs == <<Node("a", FALSE, UrlResJs)>>

BodyImg(folder) == <<Node("img", FALSE, UrlSelfImg(folder)), Node("a", FALSE, UrlBack)>>

Bodies(folder) == {BodyEvil, BodyResJs, BodyImg(folder)}

HiddenValues == {"", "true"}

OrderValues == {"", "1"}

TwoCardDocs ==
    {<<Card(t1, h1, o1, BodyPlain), Card(t2, h2, o2, BodyPlain)>> :
        <<t1, t2>> \in {pr \in Folders \X Folders : pr[1] # pr[2]},
        h1 \in HiddenValues, h2 \in {""},
        o1 \in {""}, o2 \in OrderValues}

OneCardDocs ==
    UNION {{<<Card(t, "", "", b)>> : b \in Bodies(t)} : t \in Folders}

HardDocs ==
    {<<[Card("a", "", "", BodyPlain) EXCEPT !.intent = "hard", !.locked = l]>> :
        l \in BOOLEAN}

EditorDocs == {<<>>} \cup OneCardDocs \cup TwoCardDocs \cup HardDocs

\* ---- actions ----
InitPub ==
    /\ LockQuiet
    /\ AwQuiet
    /\ FnQuiet
    /\ dirs \in SUBSET Folders
    /\ idFile = [f \in DirNames |-> NoId]
    /\ child = [f \in DirNames |-> NoPage]
    /\ master = NoMaster
    /\ agg = NoAgg
    /\ registry = <<>>
    /\ regWritable = FALSE
    /\ clock = 1
    /\ pubLast = NoOp

\* ---- api.py 249-342 (card_registry.py 205-295) ----
NoOrder == -1

RegItem(id, folder, title, hidden, order, created_at) ==
    [id |-> id, folder |-> folder, title |-> title, hidden |-> hidden,
     order |-> order, created_at |-> created_at]

\* int(order_val), None when the attribute is missing or not a number
OrderInt(o) == CASE o = "1" -> 1 [] o = "2000" -> 2000 [] OTHER -> NoOrder

\* items_by_id: a later item with the same id replaces the earlier one and
\* keeps its place (a dict keeps the place of the first insertion)
RECURSIVE ItemsById(_)
ItemsById(items) ==
    IF items = <<>> THEN <<>>
    ELSE LET front == ItemsById(SubSeq(items, 1, Len(items) - 1))
             it == items[Len(items)]
             at == {k \in 1..Len(front) : front[k].id = it.id}
         IN IF it.id = NoId THEN front
            ELSE IF at = {} THEN Append(front, it)
            ELSE [k \in 1..Len(front) |-> IF k \in at THEN it ELSE front[k]]

\* api.py 312-327: one card is written over the item with its id
BootstrapCard(items, card) ==
    IF card.cid = NoId THEN items
    ELSE LET at == {k \in 1..Len(items) : items[k].id = card.cid}
             old == IF at = {}
                    THEN RegItem(card.cid, "", "", "none", NoOrder, NoStamp)
                    ELSE items[CHOOSE k \in at : TRUE]
             new == [old EXCEPT
                        !.folder = IF card.dataCard # "" THEN card.dataCard ELSE @,
                        !.title = IF card.title # "" THEN card.title ELSE @,
                        !.hidden = IF card.hidden = "true" THEN "true" ELSE "false",
                        !.order = IF OrderInt(card.order) # NoOrder
                                  THEN OrderInt(card.order) ELSE @]
         IN IF at = {} THEN Append(items, new)
            ELSE [k \in 1..Len(items) |-> IF k \in at THEN new ELSE items[k]]

RECURSIVE BootstrapCards(_, _)
BootstrapCards(items, cards) ==
    IF cards = <<>> THEN items
    ELSE BootstrapCards(BootstrapCard(items, Head(cards)), Tail(cards))

\* the registry after _bootstrap_id_registry_from_master
bootstrap_id_registry_from_master(reg, m) ==
    IF TextEmpty(m) THEN <<>>
    ELSE BootstrapCards(ItemsById(reg), m.cards)

\* api.py 863-882: a failed scan leaves one entry in errors
scan_step(w, scan_ok) ==
    [w EXCEPT !.scanOk = scan_ok, !.errors = IF scan_ok THEN 0 ELSE 1]

\* api.py 994-1002: the registry bootstrap, always, also after a failed push
registry_step(w) ==
    [w EXCEPT !.registry =
        IF w.regWritable
        THEN bootstrap_id_registry_from_master(w.registry, w.master)
        ELSE @]

\* api.py 1004: overall_ok = scan_ok and push_ok
overall_ok(w) == [w EXCEPT !.ok = w.scanOk /\ w.pushOk]

\* mutation of sync_steps: a failed scan ends the run
sync_steps_StopAfterScan(w, scan_ok, fail) ==
    IF scan_ok
    THEN overall_ok(push_run(prune_apply(Merge(ColdStart(w))), fail))
    ELSE [w EXCEPT !.scanOk = FALSE, !.errors = 1, !.ok = FALSE]

\* api.py 863-1037, the body under the lock: scan result, cold start,
\* merge, prune-apply, push, registry bootstrap, result
sync_steps(w, scan_ok, fail) ==
    overall_ok(registry_step(
        push_run(prune_apply(Merge(ColdStart(scan_step(w, scan_ok)))), fail)))

\* the files and the record of the operation after it ran
Commit(w, name, start) ==
    /\ dirs' = w.dirs
    /\ idFile' = w.idFile
    /\ child' = w.child
    /\ master' = w.master
    /\ agg' = w.agg
    /\ registry' = w.registry
    /\ pubLast' = [op |-> name,
                   caseB |-> ~start.master.exists /\ start.agg.exists,
                   wroteMaster |-> w.wroteMaster, wroteAgg |-> w.wroteAgg,
                   wroteChild |-> w.wroteChild, byPush |-> w.byPush,
                   ok |-> w.ok, ren |-> NoRename, ids |-> NoIds,
                   cold |-> ~start.master.exists /\ ~start.agg.exists,
                   \* metrics of the result dict (api.py 916, 974)
                   foldersAdded |-> w.foldersAdded,
                   prunedFromMaster |-> w.prunedFromMaster,
                   \* counters of the prune result (pruner.py 549-555)
                   hard_deleted |-> w.hard_deleted,
                   hard_skipped_locked |-> w.hard_skipped_locked,
                   \* scanOk, pushOk and the length of errors (api.py 1033-1037),
                   \* and which atomic write of the push raised
                   scanOk |-> w.scanOk, pushOk |-> w.pushOk,
                   errors |-> w.errors, failedWrite |-> w.failedWrite]
    /\ UNCHANGED <<regWritable, clock, lockVars, awVars, fnVars>>

\* api.py 823-1038, the body under the lock: cold start, merge, prune-apply,
\* push (skipped when SUKSUKIDX_FAIL_PUSH=1 raises before it, api.py 982)
Sync(fail_push) ==
    Commit(sync_steps(World, TRUE, IF fail_push THEN "forced" ELSE "none"),
           "sync", World)

\* api.py 532-578: the document is stored, then pushed
SaveMaster(doc) ==
    LET w1 == [World EXCEPT !.master = [exists |-> TRUE, pre |-> FALSE, cards |-> doc],
                            !.wroteMaster = TRUE]
    IN Commit(push_master_to_resource(w1), "save_master", World)

\* api.py 1464-1497
PruneApply ==
    Commit(prune_apply(World), "prune_apply", World)

\* the user creates a folder under resource/
AddFolder(f) ==
    /\ f \notin dirs
    /\ dirs' = dirs \cup {f}
    /\ pubLast' = NoOp
    /\ UNCHANGED <<idFile, child, master, agg, registry, regWritable, clock, lockVars, awVars, fnVars>>

\* the user deletes a folder with everything in it
RemoveFolder(f) ==
    /\ f \in dirs
    /\ dirs' = dirs \ {f}
    /\ idFile' = [idFile EXCEPT ![f] = NoId]
    /\ child' = [child EXCEPT ![f] = NoPage]
    /\ pubLast' = [NoOp EXCEPT !.op = "remove",
                               !.ren = [from |-> f, to |-> "", id |-> idFile[f]]]
    /\ UNCHANGED <<master, agg, registry, regWritable, clock, lockVars, awVars, fnVars>>

\* the user deletes backend/master_content.html
DeleteMaster ==
    /\ master.exists
    /\ master' = NoMaster
    /\ pubLast' = NoOp
    /\ UNCHANGED <<dirs, idFile, child, agg, registry, regWritable, clock, lockVars, awVars, fnVars>>

NextPub ==
    \/ \E fail_push \in BOOLEAN : Sync(fail_push)
    \/ \E doc \in EditorDocs : SaveMaster(doc)
    \/ PruneApply
    \/ \E f \in Folders : AddFolder(f)
    \/ \E f \in Folders : RemoveFolder(f)
    \/ DeleteMaster

SpecPub == InitPub /\ [][NextPub]_vars

\* ======================================================================
\* SpecTree: the same pipeline while the curator renames and copies
\* folders; the documents saved have plain bodies and may repeat a title.
\* ======================================================================
\* the curator renames a folder; its identifier file and page move with it
RenameFolder(f, g) ==
    /\ f \in dirs /\ g \notin dirs
    /\ dirs' = (dirs \ {f}) \cup {g}
    /\ idFile' = [idFile EXCEPT ![g] = idFile[f], ![f] = NoId]
    /\ child' = [child EXCEPT ![g] = child[f], ![f] = NoPage]
    /\ pubLast' = [NoOp EXCEPT !.op = "rename",
                               !.ren = [from |-> f, to |-> g, id |-> idFile[f]]]
    /\ UNCHANGED <<master, agg, registry, regWritable, clock, lockVars, awVars, fnVars>>

\* the curator copies a folder with everything in it
CopyFolder(f, g) ==
    /\ f \in dirs /\ g \notin dirs
    /\ dirs' = dirs \cup {g}
    /\ idFile' = [idFile EXCEPT ![g] = idFile[f]]
    /\ child' = [child EXCEPT ![g] = child[f]]
    /\ pubLast' = [NoOp EXCEPT !.op = "copy",
                               !.ren = [from |-> f, to |-> g, id |-> idFile[f]]]
    /\ UNCHANGED <<master, agg, registry, regWritable, clock, lockVars, awVars, fnVars>>

\* api.py 884-920: a sync that stops after the merge step (prune switched
\* off by SUKSUKIDX_PRUNE_ON_SYNC=0, api.py 928; push raising, api.py 982)
SyncMerge ==
    LET w == Merge(ColdStart(World))
    IN Commit([w EXCEPT !.ok = FALSE], "merge", World)

\* builder.py 52-108, called on its own
EnsureCardIds(failing) ==
    LET r == ensure_card_ids(World, failing)
    IN /\ idFile' = r.idFile
       /\ pubLast' = [NoOp EXCEPT !.op = "ensure_card_ids",
                                  !.ids = [folder_to_id |-> r.folder_to_id,
                                           failing |-> failing,
                                           before |-> idFile]]
       /\ UNCHANGED <<dirs, child, master, agg, registry, regWritable, clock, lockVars, awVars, fnVars>>

SameTitleDocs ==
    {<<Card(t, "", "", BodyPlain), Card(t, "", "", BodyPlain)>> : t \in Folders}

PlainDocs ==
    {<<Card(t, "", "", BodyPlain)>> : t \in Folders} \cup
    {<<Card("B", "", "", BodyPlain), Card("a", "", "", BodyPlain)>>}

\* a card whose body shows a picture kept in the other folder
BodyRef(folder) == <<Node("img", FALSE, UrlSelfImg(folder))>>

CrossDocs ==
    {<<Card("B", "", "", BodyRef("a")), Card("a", "", "", BodyPlain)>>}

TreeDocs == PlainDocs \cup SameTitleDocs \cup CrossDocs

NextTree ==
    \/ \E doc \in TreeDocs : SaveMaster(doc)
    \/ Sync(FALSE)
    \/ SyncMerge
    \/ PruneApply
    \/ \E f \in Folders : AddFolder(f)
    \/ \E f \in Folders : RemoveFolder(f)
    \/ \E f, g \in Folders : RenameFolder(f, g)
    \/ \E f, g \in Folders : CopyFolder(f, g)

SpecTree == InitPub /\ [][NextTree]_vars

\* ======================================================================
\* SpecSwap: the merge while the curator renames folders, also two at a
\* time: two folders exchange their names between two runs.
\* ======================================================================
\* the curator renames f to a spare name, g to f and the spare name to g;
\* the identifier files and the pages move with the folders
SwapFolders(f, g) ==
    /\ f \in dirs /\ g \in dirs /\ f # g
    /\ idFile' = [idFile EXCEPT ![f] = idFile[g], ![g] = idFile[f]]
    /\ child' = [child EXCEPT ![f] = child[g], ![g] = child[f]]
    /\ pubLast' = [NoOp EXCEPT !.op = "swap"]
    /\ UNCHANGED <<dirs, master, agg, registry, regWritable, clock, lockVars, awVars, fnVars>>

\* documents whose cards differ in their bodies
SwapDocs ==
    {<<Card("B", "", "", BodyPlain), Card("a", "", "", BodyResJs)>>,
     <<Card("a", "", "", BodyPlain)>>}

NextSwap ==
    \/ \E doc \in SwapDocs : SaveMaster(doc)
    \/ Sync(FALSE)
    \/ SyncMerge
    \/ \E f \in Folders : AddFolder(f)
    \/ \E f \in Folders : RemoveFolder(f)
    \/ \E f, g \in Folders : RenameFolder(f, g)
    \/ \E f, g \in Folders : SwapFolders(f, g)

SpecSwap == InitPub /\ [][NextSwap]_vars

\* ======================================================================
\* SpecIds: ensure_card_ids called on folder trees whose identifier files
\* may be missing or identical (a copied folder), with writes that may fail.
\* ======================================================================
\* identifiers found in the files before the first call
OldIds == {"i1", "i2"}

InitIds ==
    /\ LockQuiet
    /\ AwQuiet
    /\ FnQuiet
    /\ dirs \in SUBSET (Folders \cup {"css", ".x"})
    /\ idFile \in {ids \in [DirNames -> OldIds \cup {NoId}] :
                      \A f \in DirNames : f \notin CardFolders(dirs) => ids[f] = NoId}
    /\ child = [f \in DirNames |-> NoPage]
    /\ master = NoMaster
    /\ agg = NoAgg
    /\ registry = <<>>
    /\ regWritable = FALSE
    /\ clock = 1
    /\ pubLast = NoOp

NextIds ==
    \/ \E failing \in SUBSET CardFolders(dirs) : EnsureCardIds(failing)
    \/ \E f, g \in Folders \cup {"css"} : CopyFolder(f, g)

SpecIds == InitIds /\ [][NextIds]_vars

\* ======================================================================
\* SpecNames: sync over trees that also hold the shared directories css and
\* thumbs and a dot-prefixed directory.
\* ======================================================================
InitNames ==
    /\ LockQuiet
    /\ AwQuiet
    /\ FnQuiet
    /\ dirs \in SUBSET DirNames
    /\ idFile = [f \in DirNames |-> NoId]
    /\ child = [f \in DirNames |-> NoPage]
    /\ master = NoMaster
    /\ agg = NoAgg
    /\ registry = <<>>
    /\ regWritable = FALSE
    /\ clock = 1
    /\ pubLast = NoOp

NextNames ==
    \/ \E fail_push \in BOOLEAN : Sync(fail_push)
    \/ \E f \in DirNames : AddFolder(f)
    \/ \E f \in DirNames : RemoveFolder(f)

SpecNames == InitNames /\ [][NextNames]_vars

\* ======================================================================
\* SpecLinks: the pipeline on documents whose card bodies hold a link back
\* to the aggregate page, in the form of the per-folder page, of the
\* master document and of the aggregate page itself.
\* ======================================================================
UrlBackStored == <<"resource/", "master_index.html">>

UrlBackBare == <<"master_index.html">>

BackUrls == {UrlBack, UrlBackStored, UrlBackBare}

BackDocs ==
    {<<Card(t, "", "", <<Node("p", FALSE, <<>>), Node("a", FALSE, u)>>)>> :
        t \in Folders, u \in BackUrls}

NextLinks ==
    \/ Sync(FALSE)
    \/ \E doc \in BackDocs : SaveMaster(doc)
    \/ PruneApply
    \/ \E f \in Folders : AddFolder(f)
    \/ \E f \in Folders : RemoveFolder(f)

SpecLinks == InitPub /\ [][NextLinks]_vars

\* ======================================================================
\* SpecReg: the pipeline with a registry file that can be written, the
\* registry helpers called on their own, and a clock that advances.
\* ======================================================================
MaxClock == 2

NoArg == "none"

\* mutation of registry_upsert_item: a given created_at is always stored
registry_upsert_item_Overwrite(items, card_id, folder, title, created_at, hidden) ==
    LET at == {k \in 1..Len(items) : items[k].id = card_id}
        first == IF at = {} THEN Len(items) + 1
                 ELSE CHOOSE k \in at : \A j \in at : k <= j
        base == IF at = {}
                THEN Append(items, RegItem(card_id, "", "", "none", NoOrder, NoStamp))
                ELSE items
    IN [base EXCEPT ![first] =
           [@ EXCEPT
               !.folder = IF folder # NoArg THEN folder ELSE @,
               !.title = IF title # NoArg THEN title ELSE @,
               !.created_at = IF created_at # NoStamp THEN created_at ELSE @,
               !.hidden = IF hidden # NoArg THEN hidden ELSE @]]

\* api.py 377-419 (card_registry.py 113-157); NoArg / NoStamp stand for an
\* argument left at None
registry_upsert_item(items, card_id, folder, title, created_at, hidden) ==
    LET at == {k \in 1..Len(items) : items[k].id = card_id}
        first == IF at = {} THEN Len(items) + 1
                 ELSE CHOOSE k \in at : \A j \in at : k <= j
        base == IF at = {}
                THEN Append(items, RegItem(card_id, "", "", "none", NoOrder, NoStamp))
                ELSE items
    IN [base EXCEPT ![first] =
           [@ EXCEPT
               !.folder = IF folder # NoArg THEN folder ELSE @,
               !.title = IF title # NoArg THEN title ELSE @,
               !.created_at = IF @ = NoStamp /\ created_at # NoStamp
                              THEN created_at ELSE @,
               !.hidden = IF hidden # NoArg THEN hidden ELSE @]]

RegistryUpsert(card_id, folder, title, created_at, hidden) ==
    /\ registry' = IF regWritable
                   THEN registry_upsert_item(registry, card_id, folder, title,
                                             created_at, hidden)
                   ELSE registry
    /\ pubLast' = [NoOp EXCEPT !.op = "upsert"]
    /\ UNCHANGED <<dirs, idFile, child, master, agg, regWritable, clock,
                   lockVars, awVars, fnVars>>

\* api.py 461-466: refresh_id_registry
RefreshIdRegistry ==
    /\ registry' = IF regWritable
                   THEN bootstrap_id_registry_from_master(registry, master)
                   ELSE registry
    /\ pubLast' = [NoOp EXCEPT !.op = "refresh_id_registry"]
    /\ UNCHANGED <<dirs, idFile, child, master, agg, regWritable, clock,
                   lockVars, awVars, fnVars>>

\* time passes
ClockTick ==
    /\ clock < MaxClock
    /\ clock' = clock + 1
    /\ pubLast' = NoOp
    /\ UNCHANGED <<dirs, idFile, child, master, agg, registry, regWritable,
                   lockVars, awVars, fnVars>>

RegDocs ==
    {<<Card("a", "", "", BodyPlain)>>, <<Card("a", "true", "1", BodyPlain)>>}

InitReg ==
    /\ LockQuiet
    /\ AwQuiet
    /\ FnQuiet
    /\ dirs = {"a"}
    /\ idFile = [f \in DirNames |-> NoId]
    /\ child = [f \in DirNames |-> NoPage]
    /\ master = NoMaster
    /\ agg = NoAgg
    /\ registry = <<>>
    /\ regWritable = TRUE
    /\ clock = 1
    /\ pubLast = NoOp

NextReg ==
    \/ Sync(FALSE)
    \/ \E doc \in RegDocs : SaveMaster(doc)
    \/ RefreshIdRegistry
    \/ \E card_id \in {"i1", "i8"}, created_at \in {NoStamp, clock} :
            LET folder == IF card_id = "i8" THEN "a" ELSE NoArg
            IN RegistryUpsert(card_id, folder, folder, created_at,
                              IF folder = NoArg THEN NoArg ELSE "true")
    \/ ClockTick
    \/ \E f, g \in Folders : RenameFolder(f, g)

SpecReg == InitReg /\ [][NextReg]_vars

\* ======================================================================
\* SpecFail: sync runs in which the scan step fails or one of the atomic
\* writes of the push raises.
\* ======================================================================
SyncRun(scan_ok, fail) ==
    Commit(sync_steps(World, scan_ok, fail), "sync", World)

NextFail ==
    \/ \E scan_ok \in BOOLEAN, fail \in PushFails : SyncRun(scan_ok, fail)
    \/ \E doc \in PlainDocs : SaveMaster(doc)
    \/ \E f \in Folders : AddFolder(f)
    \/ \E f \in Folders : RemoveFolder(f)

SpecFail == InitPub /\ [][NextFail]_vars

\* ======================================================================
\* SpecHard: prune-apply over documents whose cards are marked for hard
\* deletion, locked or not, alone or next to another marked card.
\* ======================================================================
HardCard(t, l) ==
    [Card(t, "", "", BodyPlain) EXCEPT !.intent = "hard", !.locked = l]

HardPairDocs ==
    {<<HardCard("a", l)>> : l \in BOOLEAN} \cup
    {<<HardCard("a", TRUE), HardCard(t, l)>> : t \in Folders, l \in BOOLEAN} \cup
    {<<HardCard("a", TRUE), Card("B", "", "", BodyPlain)>>}

NextHard ==
    \/ \E doc \in HardPairDocs : SaveMaster(doc)
    \/ PruneApply
    \/ Sync(FALSE)
    \/ \E f \in Folders : AddFolder(f)
    \/ \E f \in Folders : RemoveFolder(f)

SpecHard == InitPub /\ [][NextHard]_vars

\* ======================================================================
\* SpecRead: the operations the interface calls to display the document and
\* the dry-run report, between publishes, edits and deletions of the master.
\* ======================================================================
\* htmlops.py 147-160: resource/ is put before every src/href that
\* _SKIP_PREFIX does not match
prefix_resource_paths_for_root(body) ==
    [i \in 1..Len(body) |->
        IF body[i].tag \in {"img", "a"} /\ IsBare(body[i].url)
        THEN [body[i] EXCEPT !.url = <<"resource/">> \o @]
        ELSE body[i]]

\* api.py 508-530: the stored document is shown; when it is absent and the
\* aggregate page exists, the body of the aggregate page is stored as the
\* master document (the aggregate page of the model keeps the title and
\* the body of each block)
get_master(w) ==
    IF w.master.exists THEN w
    ELSE IF w.agg.exists
    THEN [w EXCEPT
             !.master = [exists |-> TRUE, pre |-> FALSE,
                         cards |-> [i \in 1..Len(w.agg.cards) |->
                                      Card(w.agg.cards[i].title, "", "",
                                           prefix_resource_paths_for_root(
                                               w.agg.cards[i].body))]],
             !.wroteMaster = TRUE]
    ELSE w

GetMaster == Commit(get_master(World), "get_master", World)

\* api.py 1433-1462 and pruner.py 286-336: the report is computed and returned
DiffAndReport == Commit(World, "diff_and_report", World)

NextRead ==
    \/ GetMaster
    \/ DiffAndReport
    \/ Sync(FALSE)
    \/ \E doc \in PlainDocs : SaveMaster(doc)
    \/ PruneApply
    \/ DeleteMaster
    \/ \E f \in Folders : AddFolder(f)
    \/ \E f \in Folders : RemoveFolder(f)

SpecRead == InitPub /\ [][NextRead]_vars

\* ======================================================================
\* SpecSan: sanitize_for_publish as a function.  The input is drawn in the
\* initial state, the first step sanitizes it and the second step
\* sanitizes the output of the first.
\* ======================================================================
MaxBody == 2

\* soup.find_all(True) yields elements only; what an unwrapped tag leaves
\* behind is text
IsElement(n) == n.tag # "#text"

\* sanitizer.py 137-204: the four counters
SanitizeMetrics(body) ==
    LET kept == SelectSeq(body, LAMBDA n : n.tag \notin DangerTags)
    IN [removed_nodes  |-> Len(body) - Len(kept),
        removed_attrs  |-> Len(SelectSeq(kept, LAMBDA n : IsElement(n) /\ n.on)),
        unwrapped_tags |-> Len(SelectSeq(kept, LAMBDA n :
                               IsElement(n) /\ n.tag \notin AllowedTags)),
        blocked_urls   |-> Len(SelectSeq(kept, LAMBDA n :
                               n.tag \in {"a", "img"} /\ ~IsAllowedUrl(n.url)))]

\* sanitize_for_publish(div_html, return_metrics=True)
sanitize_for_publish(body) ==
    [markup |-> SanitizeForPublish(body), metrics |-> SanitizeMetrics(body)]

SanTags == {"script", "button", "a", "img", "font"}
SanUrls == {<<>>, UrlJs, <<"x.png">>}
SanNodes == {Node(tg, hasOn, u) : tg \in SanTags, hasOn \in BOOLEAN, u \in SanUrls}
SanBodies == UNION {[1..n -> SanNodes] : n \in 0..MaxBody}

InitSan ==
    /\ LockQuiet
    /\ AwQuiet
    /\ PubQuiet
    /\ fnIn \in SanBodies
    /\ fnFolder = ""
    /\ fnOut = <<<<>>, <<>>>>
    /\ fnMetrics = <<NoMetrics, NoMetrics>>
    /\ fnPc = 0

SanitizeFirst ==
    /\ fnPc = 0
    /\ LET r == sanitize_for_publish(fnIn)
       IN /\ fnOut' = [fnOut EXCEPT ![1] = r.markup]
          /\ fnMetrics' = [fnMetrics EXCEPT ![1] = r.metrics]
    /\ fnPc' = 1
    /\ UNCHANGED <<fnIn, fnFolder, lockVars, awVars, pubVars>>

SanitizeAgain ==
    /\ fnPc = 1
    /\ LET r == sanitize_for_publish(fnOut[1])
       IN /\ fnOut' = [fnOut EXCEPT ![2] = r.markup]
          /\ fnMetrics' = [fnMetrics EXCEPT ![2] = r.metrics]
    /\ fnPc' = 2
    /\ UNCHANGED <<fnIn, fnFolder, lockVars, awVars, pubVars>>

NextSan == SanitizeFirst \/ SanitizeAgain

SpecSan == InitSan /\ [][NextSan]_vars

\* ======================================================================
\* SpecPaths: adjust_paths_for_folder as a function of a card body and the
\* card's folder, for the per-folder page and for the aggregate page.
\* ======================================================================
PathFiles == {<<"x.png">>, <<"notes">>, <<"sub", "/", "x.png">>}
PathUrls ==
    {<<"resource/", g, "/">> \o p : g \in Folders, p \in PathFiles} \cup
    PathFiles \cup {<<>>, UrlBack, <<"http://", "h">>}
PathNodes == {Node(tg, FALSE, u) : tg \in {"img", "a"}, u \in PathUrls} \cup
             {Node("p", FALSE, <<>>)}
PathBodies == UNION {[1..n -> PathNodes] : n \in 1..MaxBody}

InitPaths ==
    /\ LockQuiet
    /\ AwQuiet
    /\ PubQuiet
    /\ fnIn \in PathBodies
    /\ fnFolder \in Folders
    /\ fnOut = <<<<>>, <<>>>>
    /\ fnMetrics = <<NoMetrics, NoMetrics>>
    /\ fnPc = 0

\* fnOut[1] is the body for the per-folder page, fnOut[2] the body for the
\* aggregate page
AdjustPaths(for_resource_master) ==
    /\ fnPc = 0
    /\ LET out == AdjustPathsForFolder(fnIn, fnFolder, for_resource_master)
       IN fnOut' = [fnOut EXCEPT ![IF for_resource_master THEN 2 ELSE 1] = out]
    /\ fnPc' = IF for_resource_master THEN 2 ELSE 1
    /\ UNCHANGED <<fnIn, fnFolder, fnMetrics, lockVars, awVars, pubVars>>

NextPaths == \E for_resource_master \in BOOLEAN : AdjustPaths(for_resource_master)

SpecPaths == InitPaths /\ [][NextPaths]_vars

\* ------------------------------------------------------------------------
\* Properties of Spec
\* ------------------------------------------------------------------------
\* between a successful __enter__ and the end of __exit__
Holding(p) == pc[p] \in {"body", "exit"}

\* a process inside the run that writes master / aggregate / per-folder pages
InWriteRun(p) == pc[p] \in {"body", "run"}

\* __enter__ has ended and, if it succeeded, the lock was not released yet
Settled(p) ==
    /\ op[p] = "sync"
    /\ \/ Holding(p)
       \/ pc[p] = "idle" /\ entry[p] \in {"locked", "error", "break_failed"}

Earlier(a, b) == IF a <= b THEN a ELSE b

\* p and q called __enter__ while no lock file existed, both attempts have
\* ended, and all of it happened within the staleness threshold
ConcurrentRound(p, q) ==
    /\ p # q
    /\ enteredAt[p] # NoEntry /\ enteredAt[q] # NoEntry
    /\ now - Earlier(enteredAt[p], enteredAt[q]) <= StaleAfter
    /\ Settled(p) /\ Settled(q)

ExactlyOneHolds(p, q) ==
    \/ Holding(p) /\ entry[q] = "locked"
    \/ Holding(q) /\ entry[p] = "locked"

C1_RoundInv ==
    \A p, q \in Procs :
        (ConcurrentRound(p, q) /\ entry[p] # "error" /\ entry[q] # "error")
            => ExactlyOneHolds(p, q)

\* a holder's __exit__ leaves no lock file behind
C1_ReleaseStep ==
    \A p \in Procs :
        (pc[p] = "exit" /\ pc'[p] = "idle" /\ acquired[p] /\ result'[p] # LockedResult)
            => ~lockFile'.exists

\* an attempt that reaches os.open with no lock file present creates it
C1_OpenStep ==
    \A q \in Procs :
        (pc[q] = "open" /\ pc'[q] # "open" /\ ~lockFile.exists)
            => (pc'[q] = "write" /\ lockFile'.exists /\ lockFile'.creator = q)

C3_WritesOnlyUnderLock ==
    /\ \A p \in Procs : InWriteRun(p) => acquired[p]
    /\ \A p, q \in Procs : (p # q /\ InWriteRun(p)) => ~InWriteRun(q)

C4_LockedState ==
    \A p \in Procs :
        (op[p] = "sync" /\ entry[p] = "locked")
            => (result[p] = LockedResult /\ touched[p] = {} /\ pc[p] = "idle")

C4_LockedStep ==
    \A p \in Procs :
        (pc[p] = "open" /\ lockFile.exists /\ pc'[p] # "open")
            => (entry'[p] = "locked" /\ pc'[p] = "idle" /\ lockFile' = lockFile)

\* C4: a sync whose os.open finds the lock file returns at once with
\* locked=true, ok=false, errors=["locked"], having read or written none
\* of the shared files, and leaves the lock file as it was.
C4_LockedReturnsImmediately ==
    /\ []C4_LockedState
    /\ [][C4_LockedStep]_vars

C4_Witness ==
    \E p \in Procs :
        /\ op[p] = "sync" /\ entry[p] = "locked" /\ pc[p] = "idle"
        /\ result[p] = LockedResult /\ touched[p] = {}
        /\ lockFile.exists /\ ~IsStale(lockFile, now)

\* C5: sync returns locked=true only when the acquisition failed, never
\* after a run that acquired the lock and committed its writes.
C5_LockedOnlyWhenNotAcquired ==
    \A p \in Procs :
        (op[p] = "sync" /\ pc[p] = "idle" /\ result[p].locked)
            => (entry[p] # "acquired" /\ touched[p] = {})

\* C6: a non-holder removes an existing lock file only if its age exceeds
\* stale_after.
C6_StepRemovesOnlyStale ==
    \A p \in Procs :
        (pc'[p] # pc[p] /\ lockFile.exists /\ ~lockFile'.exists /\ lockFile.creator # p)
            => IsStale(lockFile, now)

C6_OnlyStaleLocksRemoved == [][C6_StepRemovesOnlyStale]_vars

\* ---- properties of SpecAW ----

AwRaised(w) == awpc[w] = "idle" /\ awFailedAt[w] # "none"

\* C7 (as stated): a call of atomic_write_text/bytes that failed at any
\* step has not changed the destination and has left no temporary file.
C7_FailureLeavesNothing ==
    \A w \in Procs : AwRaised(w) => (~awReplaced[w] /\ ~tmp[w].exists)

C7_FailureState ==
    \A w \in Procs :
        AwRaised(w) => /\ ~awReplaced[w]
                       /\ (tmp[w].exists => awUnlinkFailed[w])

\* the destination changes only in a successful os.replace, which installs
\* the complete content of the call that performs it
C7_DestStep ==
    dest' # dest =>
        \E w \in Procs :
            /\ awpc[w] = "replace" /\ awpc'[w] = "fsyncdir"
            /\ dest'.data = awData[w]

\* C7 (amended): a failed call leaves the destination as it was, and leaves
\* no temporary file unless the unlink of the temporary file failed as well;
\* the destination changes only in the rename step.
C7_AtomicOnFailure == []C7_FailureState /\ [][C7_DestStep]_vars

C7_Witness ==
    \E w \in Procs :
        /\ AwRaised(w) /\ awFailedAt[w] = "replace"
        /\ ~tmp[w].exists /\ ~awUnlinkFailed[w] /\ ~awReplaced[w]
        /\ dest.exists /\ dest.data = OldData

\* ------------------------------------------------------------------------
\* Properties of SpecPub
\* ------------------------------------------------------------------------
\* a script element, an event-handler attribute or a script-scheme URL
UnsafeNode(n) ==
    \/ n.tag = "script"
    \/ n.on
    \/ (n.url # <<>> /\ Head(n.url) = "javascript:")

\* the card bodies of the aggregate page and of every per-folder page
PublishedBodies ==
    {agg.cards[i].body : i \in 1..Len(agg.cards)} \cup
    {child[f].body : f \in {g \in DirNames : child[g].exists}}

\* C2: no published page (aggregate or per-folder) ever contains a script
\* element, an event-handler attribute or a script-scheme URL coming from a
\* card body, whichever operation wrote the page.
C2_PublishedPagesSanitized ==
    \A b \in PublishedBodies : \A i \in 1..Len(b) : ~UnsafeNode(b[i])

\* C8: a sync that starts with the master document absent and the aggregate
\* page present creates no master document and rewrites neither the
\* aggregate page nor any per-folder page.
C8_DeletedMasterNotRegenerated ==
    (pubLast.op = "sync" /\ pubLast.caseB) =>
        /\ ~pubLast.wroteMaster
        /\ ~pubLast.wroteAgg
        /\ ~pubLast.wroteChild

\* the order attribute of the master card with this title ("" when none)
MasterOrderOf(t) ==
    LET hits == {i \in 1..Len(master.cards) : master.cards[i].title = t}
    IN IF hits = {} THEN "" ELSE master.cards[CHOOSE i \in hits : TRUE].order

\* (order ascending, a card without order after every ordered one, then the
\* title compared case-insensitively)
OrderedBefore(t, u) ==
    LET ot == MasterOrderOf(t)
        ou == MasterOrderOf(u)
    IN IF ot # "" /\ ou = "" THEN TRUE
       ELSE IF ot = "" /\ ou # "" THEN FALSE
       ELSE IF OrderValue(ot) # OrderValue(ou) THEN OrderValue(ot) < OrderValue(ou)
       ELSE LowerRank(t) <= LowerRank(u)

\* C9: in the aggregate page written by a publish the cards are sorted by
\* (order ascending, title case-insensitive ascending), cards without an
\* order after all ordered ones, whatever the document order in the master.
C9_AggregateSortedByOrderThenTitle ==
    (pubLast.byPush /\ pubLast.wroteAgg /\ master.exists) =>
        \A i, j \in 1..Len(agg.cards) :
            i < j => OrderedBefore(agg.cards[i].title, agg.cards[j].title)

\* the titles of the master cards marked hidden
HiddenTitles ==
    {master.cards[i].title :
        i \in {k \in 1..Len(master.cards) : AsBool(master.cards[k].hidden) = "true"}}

\* C10: after an operation that wrote the aggregate page (push or
\* prune-apply) the aggregate page holds no card that the master document
\* marks hidden.
C10_NoHiddenCardInAggregate ==
    (pubLast.wroteAgg /\ master.exists) =>
        \A i \in 1..Len(agg.cards) : agg.cards[i].title \notin HiddenTitles

\* ------------------------------------------------------------------------
\* Properties of SpecTree
\* ------------------------------------------------------------------------
TitledCards(m, t) == {i \in 1..Len(m.cards) : m.cards[i].title = t}

CardIds(m) == {m.cards[i].cid : i \in 1..Len(m.cards)} \ {NoId}

\* the folder just renamed had an identifier and a card with its old name
\* and that identifier
RenamedWithCard ==
    /\ pubLast.op = "rename"
    /\ pubLast.ren.id # NoId
    /\ master.exists
    /\ \E i \in TitledCards(master, pubLast.ren.from) :
           master.cards[i].cid = pubLast.ren.id

\* C11: folder A with id X and a card titled A with id X; after renaming
\* the folder to B, the merge step leaves exactly one card titled B, with
\* id X, no card titled A, and no card with an id that was not there before.
C11_RenameKeepsIdentity ==
    [][(RenamedWithCard /\ pubLast'.op = "merge") =>
          /\ Cardinality(TitledCards(master', pubLast.ren.to)) = 1
          /\ \A i \in TitledCards(master', pubLast.ren.to) :
                 master'.cards[i].cid = pubLast.ren.id
          /\ TitledCards(master', pubLast.ren.from) = {}
          /\ CardIds(master') \subseteq CardIds(master)]_vars

\* the folders ensure_card_ids looked at that held identifier x before the call
HeldBefore(x) ==
    {f \in CardFolders(dirs) : pubLast.ids.before[f] = x}

\* the first of them in name order
FirstHolder(x) ==
    CHOOSE f \in HeldBefore(x) : \A g \in HeldBefore(x) : NameRank(f) <= NameRank(g)

\* the folder needed a write: it had no identifier, or one that an earlier
\* folder holds
NeededWrite(f) ==
    \/ pubLast.ids.before[f] = NoId
    \/ f # FirstHolder(pubLast.ids.before[f])

\* C12: the mapping ensure_card_ids returns gives no two folders the same
\* id; of the folders with identical identifier files the first in name
\* order keeps the id, every later one gets a new id that is written to its
\* identifier file, and a folder whose id cannot be written is not in the
\* mapping.
C12_MappingHasNoSharedId ==
    (pubLast.op = "ensure_card_ids") =>
        LET map == pubLast.ids.folder_to_id
            before == pubLast.ids.before
            failing == pubLast.ids.failing
            mapped == {f \in DirNames : map[f] # NoId}
            old == {before[f] : f \in DirNames}
        IN /\ mapped \subseteq CardFolders(dirs)
           /\ \A f, g \in mapped : f # g => map[f] # map[g]
           /\ \A f \in mapped : idFile[f] = map[f]
           /\ \A f \in CardFolders(dirs) :
                 IF ~NeededWrite(f)
                 THEN map[f] = before[f]
                 ELSE IF f \in failing
                 THEN map[f] = NoId
                 ELSE map[f] \notin old

\* ensure_card_ids ran on two folders with identical identifier files and
\* gave the later one a new identifier
C12_Witness ==
    /\ pubLast.op = "ensure_card_ids"
    /\ \E f \in CardFolders(dirs) :
          /\ pubLast.ids.before[f] # NoId
          /\ f # FirstHolder(pubLast.ids.before[f])
          /\ pubLast.ids.folder_to_id[f] \notin {NoId, pubLast.ids.before[f]}
          /\ idFile[f] = pubLast.ids.folder_to_id[f]

\* C13: after a publish no two cards of the master document carry the same
\* card id, whatever document the curator saved.
C13_NoTwoCardsShareAnId ==
    (pubLast.byPush /\ master.exists) =>
        \A i, j \in 1..Len(master.cards) :
            (i # j /\ master.cards[i].cid # NoId) =>
                master.cards[i].cid # master.cards[j].cid

\* a default card: the block make_clean_block_html_for_master emits, with
\* or without the identifier the push adds
IsDefaultCard(c) ==
    /\ c.dataCard = c.title
    /\ c.body = <<>>
    /\ c.hidden = "" /\ c.order = "" /\ c.intent = "" /\ ~c.locked

\* C14: a sync that starts with neither master document nor aggregate page
\* ends with a master document of exactly one default card per folder, an
\* aggregate page listing one card per folder, and a per-folder page with
\* the link back to the aggregate page in every folder.
C14_ColdStartBuildsEverything ==
    (pubLast.op = "sync" /\ pubLast.cold /\ pubLast.ok) =>
        /\ master.exists
        /\ Len(master.cards) = Cardinality(dirs)
        /\ \A i \in 1..Len(master.cards) :
              IsDefaultCard(master.cards[i]) /\ master.cards[i].title \in dirs
        /\ \A f \in dirs : Cardinality(TitledCards(master, f)) = 1
        /\ agg.exists
        /\ Len(agg.cards) = Cardinality(dirs)
        /\ \A f \in dirs : \E i \in 1..Len(agg.cards) : agg.cards[i].title = f
        /\ \A f \in dirs : child[f].exists /\ child[f].back /\ child[f].title = f

\* a cold-start sync over two folders has run
C14_Witness ==
    /\ pubLast.op = "sync" /\ pubLast.cold /\ pubLast.ok
    /\ dirs = Folders
    /\ Len(master.cards) = 2
    /\ Len(agg.cards) = 2
    /\ \A f \in Folders : child[f].exists

\* the folder just deleted from disk has a card in the master document
DeletedWithCard ==
    /\ pubLast.op = "remove"
    /\ master.exists
    /\ TitledCards(master, pubLast.ren.from) # {}

\* C15: after a folder with a card is deleted, diff reports the folder as
\* missing from the file system; the prune-apply that follows removes its
\* card from the master document and the aggregate page, and the next diff
\* reports no missing folder.
C15_PruneClearsDeletedFolder ==
    [][(DeletedWithCard /\ pubLast'.op = "prune_apply") =>
          /\ pubLast.ren.from \in make_report(World).folders_missing_in_fs
          /\ TitledCards(master', pubLast.ren.from) = {}
          /\ \A i \in 1..Len(agg'.cards) : agg'.cards[i].title # pubLast.ren.from
          /\ make_report(World)'.folders_missing_in_fs = {}]_vars

\* C16: a diff taken right after a prune-apply reports nothing: no folder
\* missing from the file system, no folder without its per-folder page and
\* no card that only the aggregate page has.
C16_DiffAfterPruneIsEmpty ==
    (pubLast.op = "prune_apply") =>
        /\ make_report(World).folders_missing_in_fs = {}
        /\ make_report(World).child_indexes_missing = {}
        /\ make_report(World).orphans_in_master_index_only = {}

\* ------------------------------------------------------------------------
\* Properties of SpecNames
\* ------------------------------------------------------------------------
\* C17: a sync that directly follows a successful sync leaves the master
\* document, the aggregate page and every per-folder page as they are and
\* reports foldersAdded = 0 and prunedFromMaster = 0, whatever directory
\* names the content root holds.
C17_SecondSyncChangesNothing ==
    [][(pubLast.op = "sync" /\ pubLast.ok /\ pubLast'.op = "sync" /\ pubLast'.ok) =>
          /\ master' = master
          /\ agg' = agg
          /\ child' = child
          /\ pubLast'.foldersAdded = 0
          /\ pubLast'.prunedFromMaster = 0]_vars

\* ------------------------------------------------------------------------
\* Properties of SpecSan
\* ------------------------------------------------------------------------
\* C18: sanitizing the output of a sanitize pass returns that output
\* unchanged, and the second pass reports zero removed nodes, removed
\* attributes, unwrapped tags and blocked URLs.
C18_SecondPassIsClean ==
    fnPc = 2 => (fnOut[2] = fnOut[1] /\ fnMetrics[2] = NoMetrics)

C18_Witness ==
    /\ fnPc = 2
    /\ fnOut[1] # fnIn
    /\ fnMetrics[1].unwrapped_tags > 0
    /\ fnMetrics[1].removed_attrs > 0
    /\ fnMetrics[1].blocked_urls > 0

\* a script-scheme URL in the href of an anchor or the src of an image
ScriptUrlNode(n) ==
    n.tag \in {"a", "img"} /\ n.url # <<>> /\ Head(n.url) = "javascript:"

\* C19: when the input holds a script element, an on* attribute or a
\* script-scheme URL in an href/src, the output holds none of the three
\* and the metric of that construct (removed nodes, removed attributes,
\* blocked URLs) is not zero.
C19_DangerRemovedAndCounted ==
    fnPc >= 1 =>
        /\ \A i \in 1..Len(fnOut[1]) :
              LET n == fnOut[1][i]
              IN ~(n.tag = "script" \/ n.on \/ ScriptUrlNode(n))
        /\ (\E i \in 1..Len(fnIn) : fnIn[i].tag = "script")
              => fnMetrics[1].removed_nodes > 0
        /\ (\E i \in 1..Len(fnIn) : fnIn[i].on)
              => fnMetrics[1].removed_attrs > 0
        /\ (\E i \in 1..Len(fnIn) : ScriptUrlNode(fnIn[i]))
              => fnMetrics[1].blocked_urls > 0

\* ------------------------------------------------------------------------
\* Properties of SpecPaths
\* ------------------------------------------------------------------------
OwnRef(u) == Len(u) > 3 /\ u[1] = "resource/" /\ u[2] = fnFolder /\ u[3] = "/"
SiblingRef(u) ==
    Len(u) > 3 /\ u[1] = "resource/" /\ u[2] \in Folders \ {fnFolder} /\ u[3] = "/"

\* C20: in the body rewritten for the per-folder page of folder F, a
\* src/href contentRoot/F/p has become p, a src/href contentRoot/G/p with
\* G # F has become ../G/p, and a bare file name is as it was.
C20_PerFolderRewrite ==
    fnPc = 1 =>
        /\ Len(fnOut[1]) = Len(fnIn)
        /\ \A i \in 1..Len(fnIn) :
              LET u == fnIn[i].url
                  v == fnOut[1][i].url
              IN /\ OwnRef(u) => v = SubSeq(u, 4, Len(u))
                 /\ SiblingRef(u) => v = <<"../">> \o Tail(u)
                 /\ u \in PathFiles => v = u

C20_Witness ==
    /\ fnPc = 1
    /\ \E i, j \in 1..Len(fnIn) :
          /\ OwnRef(fnIn[i].url) /\ fnOut[1][i].url \in PathFiles
          /\ SiblingRef(fnIn[j].url) /\ Head(fnOut[1][j].url) = "../"

\* C21: in the body rewritten for the aggregate page, a src/href
\* contentRoot/X/p (X the card's folder or another one) has become X/p, and
\* a bare file name p has become F/p for the card's folder F.
C21_AggregateRewrite ==
    fnPc = 2 =>
        /\ Len(fnOut[2]) = Len(fnIn)
        /\ \A i \in 1..Len(fnIn) :
              LET u == fnIn[i].url
                  v == fnOut[2][i].url
              IN /\ (OwnRef(u) \/ SiblingRef(u)) => v = Tail(u)
                 /\ u \in PathFiles => v = <<fnFolder, "/">> \o u

\* ------------------------------------------------------------------------
\* Properties of SpecLinks
\* ------------------------------------------------------------------------
\* C22: no card body of the aggregate page holds an anchor that leads to
\* master_index.html: a back-link stored in a card body is dropped, and
\* the rewriting for the aggregate page does not turn it into another
\* link that stays in the page.
C22_NoBackLinkInAggregate ==
    \A i \in 1..Len(agg.cards) :
        \A k \in 1..Len(agg.cards[i].body) :
            LET n == agg.cards[i].body[k]
            IN ~(n.tag = "a" /\ n.url # <<>> /\ n.url[Len(n.url)] = "master_index.html")

\* ------------------------------------------------------------------------
\* Properties of SpecReg
\* ------------------------------------------------------------------------
\* the same card before and after a step: the same data-card-id, or, for
\* a card that had none yet, the same title
SameCard(c, d) ==
    IF c.cid # NoId THEN d.cid = c.cid ELSE d.title = c.title

\* a step in which the program (and not the editor or the user) writes
ProgramStep ==
    pubLast'.op \in {"sync", "merge", "prune_apply", "upsert", "refresh_id_registry"}

\* C23: a data-created-at that a card carries, and a created_at that a
\* registry entry carries, is the same after every sync (merge with its
\* rename path, prune, push, registry bootstrap), registry refresh and
\* upsert, as long as the card or the entry is still there.
C23_CreatedAtNeverChanges ==
    [][ProgramStep =>
          /\ \A i \in 1..Len(master.cards) : \A j \in 1..Len(master'.cards) :
                (/\ master.exists /\ master'.exists
                 /\ master.cards[i].created # NoStamp
                 /\ SameCard(master.cards[i], master'.cards[j]))
                => master'.cards[j].created = master.cards[i].created
          /\ \A i \in 1..Len(registry) : \A j \in 1..Len(registry') :
                (/\ registry[i].created_at # NoStamp
                 /\ registry'[j].id = registry[i].id)
                => registry'[j].created_at = registry[i].created_at]_vars

\* a stamped card and a stamped registry entry have just been through a
\* sync that ran later than the stamp
C23_Witness ==
    /\ pubLast.op = "sync"
    /\ clock = MaxClock
    /\ \E i \in 1..Len(master.cards) :
          /\ master.cards[i].created = 1
          /\ \E j \in 1..Len(registry) :
                /\ registry[j].id = master.cards[i].cid
                /\ registry[j].created_at = 1

\* the registry entries with this id
EntriesOf(id) == {k \in 1..Len(registry) : registry[k].id = id}

\* C24: after the registry was rebuilt from the master document it holds
\* one entry per data-card-id of the document and nothing else, each with
\* the folder, title, hidden flag and order of that card.
C24_RegistryMirrorsMaster ==
    pubLast.op = "refresh_id_registry" =>
        /\ \A k \in 1..Len(registry) :
              \E i \in 1..Len(master.cards) :
                  master.exists /\ master.cards[i].cid = registry[k].id
        /\ \A i \in 1..Len(master.cards) :
              (master.exists /\ master.cards[i].cid # NoId) =>
                  /\ Cardinality(EntriesOf(master.cards[i].cid)) = 1
                  /\ \A k \in EntriesOf(master.cards[i].cid) :
                        /\ registry[k].folder = master.cards[i].dataCard
                        /\ registry[k].title = master.cards[i].title
                        /\ registry[k].hidden = (IF master.cards[i].hidden = "true"
                                                 THEN "true" ELSE "false")
                        /\ registry[k].order = OrderInt(master.cards[i].order)

\* ------------------------------------------------------------------------
\* Properties of SpecFail
\* ------------------------------------------------------------------------
\* the files as the push of this sync finds them
BeforePush == prune_apply(Merge(ColdStart(World)))

\* C25: when the atomic write of the aggregate page, of the master
\* document or of a per-folder page raises during the push of a sync, the
\* file it was writing is as it was before the push, the sync returns a
\* result, and that result has ok = false and an entry in errors.
C25_WriteFailureIsReported ==
    [][(pubLast'.op = "sync" /\ pubLast'.failedWrite # "none") =>
          /\ pubLast'.failedWrite = "agg" => agg' = BeforePush.agg
          /\ pubLast'.failedWrite = "master" => master' = BeforePush.master
          /\ pubLast'.failedWrite = "child" => child' = BeforePush.child
          /\ ~pubLast'.ok
          /\ pubLast'.errors >= 1]_vars

\* C26: a sync whose scan step failed has scanOk = false, ok = false and
\* one entry in errors for the scan, and its merge, prune and push did
\* what they do in a run whose scan succeeded; pushOk is that of the push.
C26_ScanFailureDoesNotStopTheRun ==
    [][(pubLast'.op = "sync" /\ ~pubLast'.scanOk) =>
          /\ ~pubLast'.ok
          /\ \E fail \in PushFails :
                LET good == sync_steps(World, TRUE, fail)
                IN /\ master' = good.master
                   /\ agg' = good.agg
                   /\ child' = good.child
                   /\ idFile' = good.idFile
                   /\ pubLast'.pushOk = good.pushOk
                   /\ pubLast'.foldersAdded = good.foldersAdded
                   /\ pubLast'.prunedFromMaster = good.prunedFromMaster
                   /\ pubLast'.errors = good.errors + 1]_vars

\* a sync with a failed scan that added a card, pruned one and pushed
C26_Witness ==
    /\ pubLast.op = "sync"
    /\ ~pubLast.scanOk
    /\ pubLast.pushOk
    /\ pubLast.errors = 1
    /\ pubLast.foldersAdded > 0
    /\ pubLast.prunedFromMaster > 0
    /\ pubLast.byPush

\* the folder just copied had an identifier, the master has one card with
\* that identifier, titled as the original, and no card titled as the copy
CopiedWithCard ==
    /\ pubLast.op = "copy"
    /\ pubLast.ren.id # NoId
    /\ master.exists
    /\ Cardinality({i \in 1..Len(master.cards) :
                       master.cards[i].cid = pubLast.ren.id}) = 1
    /\ Cardinality(TitledCards(master, pubLast.ren.from)) = 1
    /\ \A i \in TitledCards(master, pubLast.ren.from) :
           master.cards[i].cid = pubLast.ren.id
    /\ TitledCards(master, pubLast.ren.to) = {}

\* C27: folder A2 is a copy of folder A and carries the same id X; after
\* the sync the card of A still has title A, id X and its body, and A2 has
\* a card of its own with a different id.
C27_CopyKeepsOriginalCard ==
    [][(CopiedWithCard /\ pubLast'.op = "sync" /\ pubLast'.ok) =>
          /\ \E i \in TitledCards(master', pubLast.ren.from) :
                 /\ master'.cards[i].cid = pubLast.ren.id
                 /\ \A j \in TitledCards(master, pubLast.ren.from) :
                        master'.cards[i].body = master.cards[j].body
          /\ \E i \in TitledCards(master', pubLast.ren.to) :
                 master'.cards[i].cid \notin {NoId, pubLast.ren.id}]_vars

\* cards of the master named f by their data-card attribute or their heading
NamedCards(m, f) ==
    {i \in 1..Len(m.cards) : m.cards[i].dataCard = f \/ m.cards[i].title = f}

\* no two folders on disk carry the same identifier
DistinctFolderIds ==
    \A f, g \in CardFolders(dirs) :
        (f # g /\ idFile[f] # NoId) => idFile[f] # idFile[g]

\* C28: after the merge step every topic folder on disk has a card whose
\* name equals the folder name, whatever folders were renamed or created
\* before the run (checked on trees whose folder identifiers are distinct).
C28_EveryFolderHasCard ==
    (pubLast.op = "merge" /\ DistinctFolderIds) =>
        \A f \in CardFolders(dirs) : NamedCards(master, f) # {}

\* the document the merge step works on
BeforeMerge == ColdStart(World).master

\* C29: after the merge, for each folder whose on-disk id matches a card of
\* the master, the master has exactly one card with that folder name, the
\* one carrying the on-disk id.
C29_OneCardPerMatchedFolder ==
    [][(pubLast'.op = "merge") =>
          \A f \in CardFolders(dirs) :
              (idFile[f] # NoId /\ idFile[f] \in CardIds(BeforeMerge)) =>
                  /\ Cardinality(NamedCards(master', f)) = 1
                  /\ \A i \in NamedCards(master', f) :
                         master'.cards[i].cid = idFile[f]]_vars

\* cards of the master marked hard-delete and locked whose folder is on disk
ProtectedCards ==
    IF master.exists
    THEN {i \in LockedHard(master.cards) : HardSlug(master.cards[i]) \in dirs}
    ELSE {}

\* C30: prune-apply neither deletes the folder nor removes the card of a
\* card marked hard-delete and locked whose folder exists; the card is
\* counted in hard_skipped_locked, not in hard_deleted or removed_from_master.
C30_LockedCardSurvivesHardDelete ==
    [][(pubLast'.op = "prune_apply") =>
          /\ \A i \in ProtectedCards :
                 /\ HardSlug(master.cards[i]) \in dirs'
                 /\ \E j \in 1..Len(master'.cards) :
                        master'.cards[j] = master.cards[i]
          /\ pubLast'.hard_skipped_locked >= Cardinality(ProtectedCards)
          /\ pubLast'.hard_deleted <= Cardinality(HardTargets(master.cards))
          /\ pubLast'.prunedFromMaster
                 <= Len(master.cards) - Cardinality(ProtectedCards)]_vars

\* C31: after prune-apply every folder the report listed as missing its
\* per-folder page has one, whether or not the master holds a card for it
\* (checked on states where the master document exists).
C31_MissingPagesAreRebuilt ==
    [][(master.exists /\ pubLast'.op = "prune_apply") =>
          \A f \in make_report(World).child_indexes_missing :
              child'[f].exists]_vars

\* a card without its identity and metadata attributes
Authored(c) == [c EXCEPT !.cid = NoId, !.created = NoStamp]

\* C32: the write-back of a publish changes only the card id and the
\* creation timestamp of cards; titles, bodies and every other attribute
\* stay, and no card is added or removed.
C32_PushKeepsAuthoredContent ==
    [][(pubLast'.op = "sync" /\ pubLast'.byPush) =>
          /\ Len(master'.cards) = Len(BeforePush.master.cards)
          /\ \A i \in 1..Len(master'.cards) :
                 Authored(master'.cards[i]) = Authored(BeforePush.master.cards[i])]_vars

C32_Witness ==
    /\ pubLast.op = "sync"
    /\ pubLast.byPush
    /\ pubLast.wroteMaster
    /\ \E i \in 1..Len(master.cards) :
           /\ master.cards[i].cid # NoId
           /\ master.cards[i].created # NoStamp
           /\ master.cards[i].body # SanitizeForPublish(master.cards[i].body)

\* titles of the cards of a document
CardTitles(m) == {m.cards[i].title : i \in 1..Len(m.cards)} \ {""}

\* C33: a publish writes a per-folder page for every card, hidden or not,
\* with a title whose folder is on disk; for a card whose folder is not on
\* disk it writes no page, creates no folder and reports no error.
C33_PagePerCardWithFolder ==
    [][(pubLast'.op \in {"sync", "save_master"} /\ pubLast'.byPush /\ pubLast'.pushOk) =>
          LET start == IF pubLast'.op = "sync" THEN BeforePush ELSE World
          IN /\ dirs' = start.dirs
             /\ pubLast'.errors = 0
             /\ \A t \in CardTitles(master') \cap DirNames :
                    IF t \in dirs'
                    THEN child'[t].exists /\ child'[t].title = t
                    ELSE child'[t] = start.child[t]]_vars

C33_Witness ==
    /\ pubLast.op = "save_master"
    /\ pubLast.byPush
    /\ pubLast.pushOk
    /\ \E i, j \in 1..Len(master.cards) :
           /\ master.cards[i].hidden = "true"
           /\ master.cards[i].title \in dirs
           /\ child[master.cards[i].title].exists
           /\ master.cards[j].title \in Folders \ dirs
           /\ ~child[master.cards[j].title].exists

\* C34: diff_and_report and get_master never create, change or delete a
\* file, also when the master document is absent and the aggregate page
\* exists.
C34_ReadOnlyOperationsWriteNothing ==
    [][(pubLast'.op \in {"get_master", "diff_and_report"}) =>
          UNCHANGED <<dirs, idFile, child, master, agg, registry>>]_vars

\* C35: after a successful publish every card whose title names a topic
\* folder on disk carries the id stored in that folder's identifier file.
C35_CardIdMatchesFolderId ==
    (pubLast.op = "sync" /\ pubLast.ok /\ pubLast.byPush) =>
        \A i \in 1..Len(master.cards) :
            master.cards[i].title \in CardFolders(dirs) =>
                /\ master.cards[i].cid # NoId
                /\ master.cards[i].cid = idFile[master.cards[i].title]

\* a step of p out of _break_stale that removes a lock file another
\* process created and that is not older than stale_after
RemovesNewLock(p) ==
    /\ pc[p] = "break" /\ pc'[p] # "break"
    /\ lockFile.exists
    /\ lockFile.creator \in Procs \ {p}
    /\ ~IsStale(lockFile, now)
    /\ lockFile' # lockFile

\* C36: when a stale lock file exists at the start and several processes
\* try to acquire, no acquirer removes the lock file that another acquirer
\* has created after reclaiming the stale one.
C36_ReclaimKeepsNewLock ==
    [][\A p \in Procs : ~RemovesNewLock(p)]_vars

\* C37: __exit__ removes the lock file only if it is the one this process
\* created: a holder whose lock was broken as stale and re-created by
\* another process leaves that process's lock file in place when it exits.
C37_ExitRemovesOnlyOwnLock ==
    [][\A p \in Procs :
          (/\ pc[p] = "exit" /\ pc'[p] = "idle"
           /\ lockFile.exists
           /\ lockFile.creator # p)
              => lockFile' = lockFile]_vars

\* no two cards of the document the merge works on carry the same id
DistinctCardIds ==
    \A i, j \in 1..Len(BeforeMerge.cards) :
        (i # j /\ BeforeMerge.cards[i].cid # NoId) =>
            BeforeMerge.cards[i].cid # BeforeMerge.cards[j].cid

\* C38: the merge never removes a card whose id is the identifier of a
\* folder on disk: whatever folders were renamed, the card is in the master
\* afterwards with its body and titled after its folder (checked on trees
\* and documents whose ids are distinct).
C38_MergeKeepsCardsOfFolders ==
    [][(pubLast'.op = "merge" /\ DistinctFolderIds /\ DistinctCardIds) =>
          \A f \in CardFolders(dirs) :
              \A i \in 1..Len(BeforeMerge.cards) :
                  (idFile[f] # NoId /\ BeforeMerge.cards[i].cid = idFile[f]) =>
                      \E j \in 1..Len(master'.cards) :
                          /\ master'.cards[j].cid = idFile[f]
                          /\ master'.cards[j].title = f
                          /\ master'.cards[j].body = BeforeMerge.cards[i].body]_vars

\* the folders the hard-delete step of an apply removes (pruner.py 439-453)
HardDeletedFolders ==
    IF master.exists
    THEN {HardSlug(master.cards[i]) : i \in HardTargets(master.cards)} \cap dirs
    ELSE {}

\* C39: prune-apply never creates a topic folder: no folder is on disk
\* afterwards that was not there before, and a folder that the hard-delete
\* step of the same apply removed is not re-created and gets no page.
C39_PruneCreatesNoFolder ==
    [][(pubLast'.op = "prune_apply") =>
          /\ dirs' \subseteq dirs
          /\ \A f \in HardDeletedFolders : f \notin dirs' /\ ~child'[f].exists]_vars

\* the last call of writer w has ended, normally or with an exception
AwFinished(w) == awpc[w] = "idle" /\ (awReplaced[w] \/ awFailedAt[w] # "none")

\* the destination holds the previous content or the whole input of one call
AwDestComplete == dest.exists => dest.data \in {OldData} \cup AwInputs

\* C40 (as stated): with two processes writing the same destination, the
\* destination always holds the complete content of one single write, and
\* once both calls have finished no temporary file remains.
C40_NoTempAfterBothFinished ==
    /\ AwDestComplete
    /\ (\A w \in Procs : AwFinished(w)) =>
           (\A w \in Procs : ~tmp[w].exists)

C40_State ==
    /\ AwDestComplete
    /\ \A w \in Procs :
           (AwFinished(w) /\ tmp[w].exists) =>
               (awFailedAt[w] # "none" /\ awUnlinkFailed[w] /\ ~awReplaced[w])

\* a step touches the temporary file of one writer only, the writer that
\* takes the step, and what a rename installs is that writer's own input
C40_OwnTmpStep ==
    \A w \in Procs :
        (tmp'[w] # tmp[w] \/ awpc'[w] # awpc[w]) =>
            /\ \A v \in Procs \ {w} : tmp'[v] = tmp[v] /\ awpc'[v] = awpc[v]
            /\ dest' # dest => (dest'.data = awData[w] /\ dest'.data = tmp[w].data)

\* C40 (amended): with two processes writing the same destination, each
\* works on its own temporary file, the destination always holds the
\* previous content or the complete content of one writer, and once both
\* calls have finished a temporary file remains only for a call that failed
\* and whose removal of the temporary file failed as well.
C40_ConcurrentWritesAtomic == []C40_State /\ [][C40_OwnTmpStep]_vars

\* both calls are under way with different contents: one has just renamed
\* its temporary file onto the destination, the other is about to
C40_Witness ==
    /\ awpc["p1"] = "fsyncdir" /\ awReplaced["p1"]
    /\ awpc["p2"] = "replace" /\ tmp["p2"].exists
    /\ tmp["p2"].data = awData["p2"]
    /\ awData["p1"] # awData["p2"]
    /\ dest.exists /\ dest.data = awData["p1"]
    /\ ~tmp["p1"].exists

====
